---- MODULE Spec2Model ----
(***************************************************************************)
(* Model of the PRStack reconcile controller (package controllers).        *)
(*                                                                         *)
(* One PRStack object lives on the apiserver (srv).  A reconcile tick      *)
(* reads it into a local copy (loc) and then walks through Reconcile, one  *)
(* step per apiserver / database call, so that user edits, clock advance   *)
(* and call failures interleave with the tick exactly where they can in    *)
(* the program.  Time is counted in hours.                                 *)
(***************************************************************************)
EXTENDS Integers, Sequences, FiniteSets, TLC

\* ---------------------------------------------------------------- bounds
MaxClock == 2      \* wall clock runs over 0..MaxClock hours
MaxEdits == 1      \* number of user writes to the PRStack (edit or delete)
MaxFail  == 1      \* number of injected failures of external calls
MaxStamp == 1      \* distinct values a user gives spec.deployedAt
MaxCalls == 1      \* direct calls of the BackupRestoreManager

\* ------------------------------------------------------ program constants
StackExpirationTime == 1          \* time.Hour

RequeueIntervalShort  == "short"  \* 5s
RequeueIntervalMedium == "medium" \* 30s
RequeueIntervalLong   == "long"   \* 5min

PhaseInitialization == ""
PhaseProvisioning   == "Provisioning"
PhaseDeploying      == "Deploying"
PhaseRunning        == "Running"
PhaseInactive       == "Inactive"
PhaseCleaning       == "Cleaning"
PhaseCleaned        == "Cleaned"
\* The two phases the condition tests name; no handler of Reconcile has a
\* case for them.
PhaseFailed         == "Failed"
PhaseDegraded       == "Degraded"

Nil == -1                         \* a nil *metav1.Time
NoCredentials == <<>>             \* Status.MongoDB == nil
PRNumber == "42"

\* The repository carries two DefaultServices lists: one with the
\* "-service" suffix and one without.  A service name is the sequence of
\* its parts so that stripping the suffix is an operation on the name.
\* Both lists are cut to their first two entries.
DefaultServicesSuffixed   == << <<"product", "-service">>, <<"cart", "-service">> >>
DefaultServicesUnsuffixed == << <<"products">>, <<"cart">> >>
\* strings.Split(DefaultServicesString, ","), cut to the same two entries
DefaultServicesString == << <<"product", "-service">>, <<"cart", "-service">> >>

VARIABLES
    exists,       \* the PRStack object is present on the apiserver
    srv,          \* the object as stored by the apiserver
    stale,        \* srv's resourceVersion differs from the one loc carries
    loc,          \* prStack: the tick's local copy
    pc,           \* position of the running tick, "idle" between ticks
    now,          \* now := metav1.Now() of the running tick
    wasReactivated,
    result,       \* (ctrl.Result, error) of the last finished tick
    clock,        \* wall clock
    cluster,      \* namespace and the objects in it
    mongodb,      \* user and databases on the shared database cluster
    suffixed,     \* which DefaultServices list the build carries
    edits, fails, \* budgets used so far
    start,        \* the object as read by the running / last tick
    startClock,   \* wall clock when it was read
    edited,       \* a user write landed since that read
    queued,       \* a reconcile request for the object is on the work queue
    effects,      \* external effects of the running / last tick, in order
    call,         \* last direct call of the BackupRestoreManager and its outcome
    world         \* two Stacks' objects on the shared systems, by name

vars == << exists, srv, stale, loc, pc, now, wasReactivated, result, clock,
           cluster, mongodb, suffixed, edits, fails, start, startClock,
           edited, queued, effects, call, world >>

\* ------------------------------------------------------------ data shapes
Stamps == 1..MaxStamp

NoCall == [op |-> "none", outcome |-> "none", n |-> 0]
NoResult == [requeue |-> "none", err |-> FALSE]
Requeue(after) == [requeue |-> after, err |-> FALSE]
Failure(after) == [requeue |-> after, err |-> TRUE]

\* What a user puts into spec.services: nothing, one of the default
\* services, or a service createServiceCollections has no case for.
ServiceChoices ==
    { <<>>, << <<"cart", "-service">> >>, << <<"search", "-service">> >> }

\* spec.imageTag, a sequence of characters: none given, or one with a blank
\* in it.
NoImageTag == <<>>
ImageTagChoices == { NoImageTag, << "v", " ", "1" >> }

\* The spec fields a PRStack is created with, one of them off its default
\* at a time.
SpecVariants ==
    {[services |-> s, imageTag |-> NoImageTag] : s \in ServiceChoices}
       \cup {[services |-> <<>>, imageTag |-> t] : t \in ImageTagChoices}

NoDeployment == [replicas |-> -1, restartedAt |-> Nil, ownerReferences |-> {}]
DeploymentNames ==
    {DefaultServicesString[i] : i \in DOMAIN DefaultServicesString}
        \cup UNION {{s[i] : i \in DOMAIN s} : s \in ServiceChoices}
        \cup {<<"nats">>, <<"redis">>}

EmptyCluster ==
    [ns |-> FALSE, secret |-> FALSE, secretPassword |-> Nil, pvc |-> FALSE,
     jobs |-> 0,
     deployments |-> [d \in DeploymentNames |-> NoDeployment]]

\* A call to an external system may fail while the failure budget lasts.
FailChoice == IF fails < MaxFail THEN BOOLEAN ELSE {FALSE}
Charge(f) == fails' = IF f THEN fails + 1 ELSE fails

\* ---------------------------------------------------------------- helpers
\* containsString / removeString on the one finalizer the controller owns:
\* the finalizer list is the flag "FinalizerName is in it".
containsString(finalizers) == finalizers
removeString(finalizers) == FALSE

DefaultServices ==
    IF suffixed THEN DefaultServicesSuffixed ELSE DefaultServicesUnsuffixed

\* getDatabaseName: strip a trailing "-service", then pishop_<name>_pr_<n>
getDatabaseName(serviceName, prNumber) ==
    LET dbName == IF Len(serviceName) > 1
                     /\ serviceName[Len(serviceName)] = "-service"
                  THEN SubSeq(serviceName, 1, Len(serviceName) - 1)
                  ELSE serviceName
    IN <<"pishop_">> \o dbName \o <<"_pr_", prNumber>>

\* validatePRNumber: not empty, ^\d+$, at most 10 digits.
validatePRNumber(prNumber) ==
    /\ prNumber # ""
    /\ prNumber \in {ToString(n) : n \in 0..99}

\* validateImageTag: ^[a-zA-Z0-9][a-zA-Z0-9._-]*$, at most 128 characters.
AlphaNumerics == {"v", "1"}
validateImageTag(imageTag) ==
    /\ Len(imageTag) > 0
    /\ imageTag[1] \in AlphaNumerics
    /\ \A i \in 2..Len(imageTag) : imageTag[i] \in AlphaNumerics \cup {".", "_", "-"}
    /\ Len(imageTag) <= 128

\* ValidatePRStack: TRUE when it returns nil.  Custom domain, resource
\* limits and backup config are not given.
ValidatePRStack(obj) ==
    /\ validatePRNumber(PRNumber)
    /\ obj.spec.imageTag # NoImageTag => validateImageTag(obj.spec.imageTag)

isStackExpired(obj, t) ==
    IF obj.status.lastActiveAt = Nil
    THEN IF obj.status.createdAt = Nil
         THEN FALSE
         ELSE t - obj.status.createdAt > StackExpirationTime
    ELSE t - obj.status.lastActiveAt > StackExpirationTime

\* The test without its comparison with status.lastDeployedAt.
shouldRolloutWheneverSet(obj) ==
    obj.spec.deployedAt # Nil

shouldRolloutDeployments(obj) ==
    IF obj.spec.deployedAt = Nil THEN FALSE
    ELSE IF obj.status.lastDeployedAt = Nil THEN TRUE
    ELSE obj.spec.deployedAt # obj.status.lastDeployedAt

\* ------------------------------------------------- apiserver write contract
\* r.Update: a write of metadata and spec, conditional on the resourceVersion
\* the local copy carries; the status subresource is not written.
UpdateAlwaysAccepted == TRUE      \* a write that carries no resourceVersion
UpdateAccepted == ~stale
UpdateWrites(obj) == [srv EXCEPT !.finalizer = obj.finalizer, !.spec = obj.spec]

\* r.Status().Update: a write of status alone, under the same condition.
StatusUpdateAlwaysAccepted == TRUE
StatusUpdateAccepted == ~stale
StatusUpdateWrites(obj) == [srv EXCEPT !.status = obj.status]

\* The write lands: the server stores it, the response refreshes the local
\* copy, and an object that is being deleted goes once its finalizer is gone.
Stored(new) ==
    /\ srv' = new
    /\ exists' = ~(new.deleting /\ ~new.finalizer)
    /\ stale' = FALSE

\* The tick returns.
Return(res) ==
    /\ pc' = "done"
    /\ result' = res

\* ------------------------------------------------------------------- Init
InitialObject(active, backup) ==
    [finalizer |-> FALSE, deleting |-> FALSE,
     spec   |-> [active |-> active, deployedAt |-> Nil, backupEnabled |-> backup,
                 services |-> <<>>, imageTag |-> NoImageTag],
     status |-> [phase |-> PhaseInitialization, message |-> "",
                 createdAt |-> Nil, lastActiveAt |-> Nil,
                 lastDeployedAt |-> Nil, mongo |-> NoCredentials,
                 password |-> Nil, services |-> <<>>]]

Blank == InitialObject(FALSE, FALSE)

\* The phase a PRStack carries when the controller first sees it: none, or
\* Failed as stored in the status of an object handed to the controller.
InitialPhases == {PhaseInitialization, PhaseFailed}

\* The one PRStack the controller is followed on.
InitStack ==
    /\ exists = TRUE
    /\ \E a \in BOOLEAN, b \in BOOLEAN, p \in InitialPhases, v \in SpecVariants :
          srv = [InitialObject(a, b) EXCEPT !.status.phase = p,
                                            !.spec.services = v.services,
                                            !.spec.imageTag = v.imageTag]
    /\ stale = FALSE
    /\ loc = Blank
    /\ pc = "idle"
    /\ now = 0
    /\ wasReactivated = FALSE
    /\ result = NoResult
    /\ clock = 0
    /\ cluster = EmptyCluster
    /\ mongodb = [user |-> FALSE, pwd |-> Nil, dbs |-> {}]
    /\ suffixed \in BOOLEAN
    /\ edits = 0
    /\ fails = 0
    /\ start = Blank
    /\ startClock = 0
    /\ edited = FALSE
    /\ queued = TRUE
    /\ effects = <<>>
    /\ call = NoCall

\* No second Stack is followed.
NoWorld == [ticking |-> "", other |-> "", namespaces |-> {}, users |-> {},
            dbs |-> {}, deployments |-> {}]

Init ==
    /\ InitStack
    /\ world = NoWorld

\* ------------------------------------------------------------ environment
ClockAdvance ==
    /\ pc # "done"
    /\ clock < MaxClock
    /\ clock' = clock + 1
    /\ UNCHANGED << exists, srv, stale, loc, pc, now, wasReactivated, result,
                    cluster, mongodb, suffixed, call, world, queued, edits, fails, start,
                    startClock, edited, effects >>

UserWrite(new) ==
    /\ pc # "done"
    /\ exists
    /\ edits < MaxEdits
    /\ edits' = edits + 1
    /\ srv' = new
    /\ exists' = ~(new.deleting /\ ~new.finalizer)
    /\ stale' = (pc # "idle")
    /\ edited' = (pc # "idle")
    /\ queued' = TRUE
    /\ UNCHANGED << loc, pc, now, wasReactivated, result, clock, cluster,
                    mongodb, suffixed, call, world, fails, start, startClock, effects >>

UserSetActive ==
    /\ UserWrite([srv EXCEPT !.spec.active = ~srv.spec.active])

UserSetDeployedAt ==
    /\ \E d \in Stamps :
          /\ d # srv.spec.deployedAt
          /\ UserWrite([srv EXCEPT !.spec.deployedAt = d])

UserDelete ==
    /\ ~srv.deleting
    /\ UserWrite([srv EXCEPT !.deleting = TRUE])

\* ---------------------------------------------------------------- Reconcile
\* Where Reconcile next calls out or reads the clock.  Tests that need no
\* call are passed in the same step.
\* The switch without its case for PhaseRunning.
PhasePcWithoutRunning(obj) ==
    CASE obj.status.phase = PhaseInitialization -> "initialization"
      [] obj.status.phase = PhaseProvisioning   -> "provisioning"
      [] obj.status.phase = PhaseDeploying      -> "deployment"
      [] obj.status.phase = PhaseCleaning       -> "finalBackup"
      [] OTHER                                  -> "byPhase"

\* reconcileByPhase's switch:
PhasePc(obj) ==
    CASE obj.status.phase = PhaseInitialization -> "initialization"
      [] obj.status.phase = PhaseProvisioning   -> "provisioning"
      [] obj.status.phase = PhaseDeploying      -> "deployment"
      [] obj.status.phase = PhaseRunning        -> "running"
      [] obj.status.phase = PhaseCleaning       -> "finalBackup"
      [] OTHER                                  -> "byPhase"

\* "Check if a deployment rollout is requested":
ActivePc(obj) ==
    IF shouldRolloutDeployments(obj) THEN "rollout" ELSE PhasePc(obj)

\* The rollout check placed ahead of the test of spec.active.
RolloutFirstPc(obj) ==
    IF shouldRolloutDeployments(obj) THEN "rollout"
    ELSE IF ~obj.spec.active THEN "inactive"
    ELSE PhasePc(obj)

\* "Handle active/inactive state": the inactive branch returns before the
\* rollout check is reached.
BranchPc(obj) ==
    IF ~obj.spec.active THEN "inactive" ELSE ActivePc(obj)

\* "Set creation time if not set":
TimestampsPc(obj) ==
    IF obj.status.createdAt = Nil THEN "timestamps" ELSE "reactivation"

\* The deletion test placed behind the finalizer and the creation time.
EntryPcDeletionLate(obj) ==
    IF ~containsString(obj.finalizer) THEN "finalizer"
    ELSE IF obj.status.createdAt = Nil THEN "timestamps"
    ELSE IF obj.deleting
    THEN IF obj.status.phase = PhaseCleaning THEN "finalBackup" ELSE "handleDeletion"
    ELSE "reactivation"

\* "Handle deletion" (handleDeletion's own test of the phase included),
\* "Add finalizer if not present":
EntryPc(obj) ==
    IF obj.deleting
    THEN IF obj.status.phase = PhaseCleaning THEN "finalBackup" ELSE "handleDeletion"
    ELSE IF ~containsString(obj.finalizer) THEN "finalizer"
    ELSE TimestampsPc(obj)

\* r.Get at the head of Reconcile.
Get ==
    /\ pc = "idle"
    /\ \E f \in FailChoice :
          /\ Charge(f)
          /\ start' = srv
          /\ startClock' = clock
          /\ edited' = FALSE
          /\ effects' = <<>>
          /\ wasReactivated' = FALSE
          /\ now' = clock
          /\ IF f THEN
                /\ Return(Failure("none"))
                /\ UNCHANGED << loc, stale >>
             ELSE IF ~exists THEN
                /\ Return(NoResult)
                /\ UNCHANGED << loc, stale >>
             ELSE
                /\ loc' = srv
                /\ stale' = FALSE
                /\ result' = NoResult
                /\ pc' = EntryPc(srv)
    /\ UNCHANGED << exists, srv, clock, cluster, mongodb, suffixed, call, world, queued, edits >>

\* Reconcile has returned: its locals are gone, the worker is free for the
\* next request for this object.
Finish ==
    /\ pc = "done"
    /\ pc' = "idle"
    /\ loc' = Blank
    /\ start' = Blank
    /\ startClock' = 0
    /\ now' = 0
    /\ wasReactivated' = FALSE
    /\ result' = NoResult
    /\ stale' = FALSE
    /\ edited' = FALSE
    /\ effects' = <<>>
    /\ queued' = (queued \/ result.err \/ result.requeue # "none" \/ srv # start)
    /\ UNCHANGED << exists, srv, clock, cluster, mongodb, suffixed, call, world, edits, fails >>

\* The r.Update of the finalizer with its error dropped: Reconcile goes on
\* with the finalizer in its local copy only.
AddFinalizerUnchecked ==
    /\ pc = "finalizer"
    /\ \E f \in FailChoice :
          /\ Charge(f)
          /\ IF f \/ ~UpdateAccepted THEN
                /\ loc' = [loc EXCEPT !.finalizer = TRUE]
                /\ UNCHANGED << exists, srv, stale >>
             ELSE
                /\ Stored(UpdateWrites([loc EXCEPT !.finalizer = TRUE]))
                /\ loc' = srv'
          /\ now' = clock
          /\ pc' = TimestampsPc(loc')
          /\ UNCHANGED result
    /\ UNCHANGED << wasReactivated, clock, cluster, mongodb, suffixed, call, world, queued,
                    edits, start, startClock, edited, effects >>

\* Add finalizer if not present.
AddFinalizer ==
    /\ pc = "finalizer"
    /\ \E f \in FailChoice :
          /\ Charge(f)
          /\ IF f \/ ~UpdateAccepted THEN
                /\ Return(Failure("none"))
                /\ UNCHANGED << exists, srv, stale, loc, now >>
             ELSE
                /\ Stored(UpdateWrites([loc EXCEPT !.finalizer = TRUE]))
                /\ loc' = srv'
                /\ now' = clock
                /\ pc' = TimestampsPc(loc')
                /\ UNCHANGED result
    /\ UNCHANGED << wasReactivated, clock, cluster, mongodb, suffixed, call, world, queued,
                    edits, start, startClock, edited, effects >>

\* Set creation time if not set.
SetTimestamps ==
    /\ pc = "timestamps"
    /\ \E f \in FailChoice :
          /\ Charge(f)
          /\ IF f \/ ~StatusUpdateAccepted THEN
                /\ Return(Failure("none"))
                /\ UNCHANGED << exists, srv, stale, loc >>
             ELSE
                /\ Stored(StatusUpdateWrites(
                       [loc EXCEPT !.status.createdAt = now,
                                   !.status.lastActiveAt = now]))
                /\ loc' = srv'
                /\ pc' = "reactivation"
                /\ UNCHANGED result
    /\ UNCHANGED << now, wasReactivated, clock, cluster, mongodb, suffixed, call, world, queued, edits,
                    start, startClock, edited, effects >>

\* If the stack is becoming active (from inactive or expired), bump LastActiveAt.
\* The expiration check placed ahead of the reactivation bump.
ExpirationFirst ==
    /\ pc = "reactivation"
    /\ \E f \in FailChoice :
          /\ Charge(f)
          /\ IF loc.spec.active /\ isStackExpired(loc, clock) THEN
                IF f \/ ~UpdateAccepted THEN
                   /\ Return(Failure("none"))
                   /\ UNCHANGED << exists, srv, stale, loc, wasReactivated >>
                ELSE
                   /\ Stored(UpdateWrites([loc EXCEPT !.spec.active = FALSE]))
                   /\ loc' = srv'
                   /\ Return(Requeue("immediate"))
                   /\ UNCHANGED wasReactivated
             ELSE IF loc.spec.active /\ loc.status.phase = PhaseInactive THEN
                IF f \/ ~StatusUpdateAccepted THEN
                   /\ Return(Failure("none"))
                   /\ UNCHANGED << exists, srv, stale, loc, wasReactivated >>
                ELSE
                   /\ Stored(StatusUpdateWrites(
                          [loc EXCEPT !.status.lastActiveAt = now]))
                   /\ loc' = srv'
                   /\ wasReactivated' = TRUE
                   /\ pc' = "expiration"
                   /\ UNCHANGED result
             ELSE
                /\ f = FALSE
                /\ pc' = "expiration"
                /\ UNCHANGED << exists, srv, stale, loc, result, wasReactivated >>
    /\ UNCHANGED << now, clock, cluster, mongodb, suffixed, call, world, queued, edits, start,
                    startClock, edited, effects >>

\* A Reconcile without the reactivation block.
ReactivationSkipped ==
    /\ pc = "reactivation"
    /\ pc' = "expiration"
    /\ UNCHANGED << exists, srv, stale, loc, result, fails, wasReactivated,
                    now, clock, cluster, mongodb, suffixed, call, world, queued, edits,
                    start, startClock, edited, effects >>

Reactivation ==
    /\ pc = "reactivation"
    /\ IF loc.spec.active
          /\ (loc.status.phase = PhaseInactive \/ isStackExpired(loc, clock))
       THEN \E f \in FailChoice :
          /\ Charge(f)
          /\ IF f \/ ~StatusUpdateAccepted THEN
                /\ Return(Failure("none"))
                /\ UNCHANGED << exists, srv, stale, loc, wasReactivated >>
             ELSE
                /\ Stored(StatusUpdateWrites(
                       [loc EXCEPT !.status.lastActiveAt = now]))
                /\ loc' = srv'
                /\ wasReactivated' = TRUE
                /\ pc' = "expiration"
                /\ UNCHANGED result
       ELSE
          /\ pc' = "expiration"
          /\ UNCHANGED << exists, srv, stale, loc, result, fails, wasReactivated >>
    /\ UNCHANGED << now, clock, cluster, mongodb, suffixed, call, world, queued, edits, start,
                    startClock, edited, effects >>

\* handleStackExpiration, or the choice between the inactive and active paths.
Expiration ==
    /\ pc = "expiration"
    /\ IF ~wasReactivated /\ isStackExpired(loc, clock) /\ loc.spec.active
       THEN \E f \in FailChoice :
          /\ Charge(f)
          /\ IF f \/ ~UpdateAccepted THEN
                /\ Return(Failure("none"))
                /\ UNCHANGED << exists, srv, stale, loc >>
             ELSE
                /\ Stored(UpdateWrites([loc EXCEPT !.spec.active = FALSE]))
                /\ loc' = srv'
                /\ Return(Requeue("immediate"))
       ELSE
          \* "Update last active time when active"
          /\ loc' = IF loc.spec.active
                    THEN [loc EXCEPT !.status.lastActiveAt = now]
                    ELSE loc
          /\ pc' = BranchPc(loc')
          /\ UNCHANGED << exists, srv, stale, result, fails >>
    /\ UNCHANGED << now, wasReactivated, clock, cluster, mongodb, suffixed, call, world, queued,
                    edits, start, startClock, edited, effects >>

\* ------------------------------------------------------- scale and rollout
\* r.List returns the Deployments of the namespace in name order.
ListOrder == << <<"cart", "-service">>, <<"nats">>, <<"product", "-service">>,
                <<"redis">>, <<"search", "-service">> >>

Listed(deps) == {i \in DOMAIN ListOrder : deps[ListOrder[i]].replicas # -1}

\* scaleDeployments from list position i on; the update at position failAt
\* fails, and the loop returns at the first error.  updated: the list
\* positions r.Update was called for.
RECURSIVE scaleFrom(_, _, _, _)
scaleFrom(deps, i, replicas, failAt) ==
    IF i > Len(ListOrder)
    THEN [deployments |-> deps, err |-> FALSE, updated |-> {}]
    ELSE LET d == ListOrder[i] IN
         IF i \notin Listed(deps) \/ deps[d].replicas = replicas
         THEN scaleFrom(deps, i + 1, replicas, failAt)
         ELSE IF failAt = i
         THEN [deployments |-> deps, err |-> TRUE, updated |-> {i}]
         ELSE [scaleFrom([deps EXCEPT ![d].replicas = replicas], i + 1,
                         replicas, failAt)
                  EXCEPT !.updated = @ \cup {i}]

\* A loop that remembers a failed update and goes on to the Deployments
\* after it.
RECURSIVE scaleRest(_, _, _, _)
scaleRest(deps, i, replicas, failAt) ==
    IF i > Len(ListOrder) THEN deps
    ELSE LET d == ListOrder[i] IN
         IF i \notin Listed(deps) \/ deps[d].replicas = replicas \/ failAt = i
         THEN scaleRest(deps, i + 1, replicas, failAt)
         ELSE scaleRest([deps EXCEPT ![d].replicas = replicas], i + 1,
                        replicas, failAt)

scaleDeploymentsTolerant(deps, replicas, failAt) ==
    [deployments |-> IF failAt = Len(ListOrder) + 1 THEN deps
                     ELSE scaleRest(deps, 1, replicas, failAt),
     err |-> scaleFrom(deps, 1, replicas, failAt).err
                \/ failAt = Len(ListOrder) + 1,
     updated |-> IF failAt = Len(ListOrder) + 1 THEN {}
                 ELSE {i \in Listed(deps) : deps[ListOrder[i]].replicas # replicas}]

\* A loop without the test "already at desired replica count": every
\* Deployment of the list is updated.
scaleDeploymentsUnconditional(deps, replicas, failAt) ==
    IF failAt = Len(ListOrder) + 1
    THEN [deployments |-> deps, err |-> TRUE, updated |-> {}]
    ELSE [deployments |->
             [d \in DOMAIN deps |->
                 IF deps[d].replicas = -1 THEN deps[d]
                 ELSE [deps[d] EXCEPT !.replicas = replicas]],
          err |-> FALSE,
          updated |-> Listed(deps)]

\* A loop that logs the error of r.List or r.Update and returns nil.
scaleDeploymentsQuiet(deps, replicas, failAt) ==
    IF failAt = Len(ListOrder) + 1
    THEN [deployments |-> deps, err |-> FALSE, updated |-> {}]
    ELSE [scaleFrom(deps, 1, replicas, failAt) EXCEPT !.err = FALSE]

\* failAt = 0: no update fails; failAt = Len(ListOrder) + 1: r.List fails.
scaleDeployments(deps, replicas, failAt) ==
    IF failAt = Len(ListOrder) + 1
    THEN [deployments |-> deps, err |-> TRUE, updated |-> {}]
    ELSE scaleFrom(deps, 1, replicas, failAt)

RECURSIVE rolloutFrom(_, _, _, _)
rolloutFrom(deps, i, stamp, failAt) ==
    IF i > Len(ListOrder) THEN [deployments |-> deps, err |-> FALSE]
    ELSE LET d == ListOrder[i] IN
         IF i \notin Listed(deps)
         THEN rolloutFrom(deps, i + 1, stamp, failAt)
         ELSE IF failAt = i
         THEN [deployments |-> deps, err |-> TRUE]
         ELSE rolloutFrom([deps EXCEPT ![d].restartedAt = stamp], i + 1,
                          stamp, failAt)

\* A loop that logs a failed update and carries on, returning nil.
rolloutDeploymentsLenient(deps, stamp, failAt) ==
    [deployments |-> rolloutFrom(deps, 1, stamp, failAt).deployments,
     err |-> FALSE]

rolloutDeployments(deps, stamp, failAt) ==
    IF failAt = Len(ListOrder) + 1
    THEN [deployments |-> deps, err |-> TRUE]
    ELSE rolloutFrom(deps, 1, stamp, failAt)

\* Where a walk over the Deployments may be made to fail.
FailPoints == IF fails < MaxFail THEN 0..(Len(ListOrder) + 1) ELSE {0}

\* What a walk leaves in the log: `done` if it changed a Deployment, and the
\* call that failed, r.List or the r.Update of one Deployment.
WalkLog(walk, before, failAt, done, updateFailed) ==
    (IF walk.deployments # before THEN << done >> ELSE <<>>)
       \o (IF ~walk.err THEN <<>>
           ELSE IF failAt = Len(ListOrder) + 1 THEN << "listFailed" >>
           ELSE << updateFailed >>)

\* updateStatusWithError: set the message, try the status write, ignore its
\* outcome.  g: the write fails for a reason other than a conflict.
updateStatusWithError(obj, message, g) ==
    IF g \/ ~StatusUpdateAccepted
    THEN UNCHANGED << exists, srv, stale >>
    ELSE Stored(StatusUpdateWrites([obj EXCEPT !.status.message = message]))

\* A second failure in the same step, while the budget lasts.
FailChoiceAfter(f) ==
    IF fails + (IF f THEN 1 ELSE 0) < MaxFail THEN BOOLEAN ELSE {FALSE}
Charge2(f, g) ==
    fails' = fails + (IF f THEN 1 ELSE 0) + (IF g THEN 1 ELSE 0)

\* --------------------------------------------------------- inactive branch
\* A branch that also lets go of the database credentials in the status.
InactiveStatusWithoutCredentials(obj, isExpired) ==
    [obj EXCEPT !.status.phase = PhaseInactive,
                !.status.message = "Stack is inactive",
                !.status.mongo = NoCredentials,
                !.status.password = Nil]

\* What the branch sets on its copy before the status write.
InactiveStatus(obj, isExpired) ==
    [obj EXCEPT !.status.phase = PhaseInactive,
                !.status.message = IF isExpired THEN "Stack expired"
                                   ELSE "Stack is inactive"]

handleInactiveStack ==
    /\ pc = "inactive"
    /\ \E failAt \in FailPoints :
          LET scaled == scaleDeployments(cluster.deployments, 0, failAt)
              isExpired == isStackExpired(loc, clock)
          IN
          /\ cluster' = [cluster EXCEPT !.deployments = scaled.deployments]
          /\ effects' = effects \o WalkLog(scaled, cluster.deployments, failAt,
                                            "scale", "scaleFailed")
          /\ IF scaled.err THEN
                \E g \in FailChoiceAfter(TRUE) :
                   /\ Charge2(TRUE, g)
                   /\ updateStatusWithError(loc, "Failed to scale down", g)
                   /\ loc' = [loc EXCEPT !.status.message = "Failed to scale down"]
                   /\ Return(Failure(RequeueIntervalMedium))
             ELSE
                \E g \in FailChoice :
                   /\ Charge(g)
                   /\ IF g \/ ~StatusUpdateAccepted THEN
                         /\ Return(Failure("none"))
                         /\ UNCHANGED << exists, srv, stale, loc >>
                      ELSE
                         /\ Stored(StatusUpdateWrites(InactiveStatus(loc, isExpired)))
                         /\ loc' = srv'
                         /\ Return(Requeue(RequeueIntervalLong))
    /\ UNCHANGED << now, wasReactivated, clock, mongodb, suffixed, call, world, queued, edits,
                    start, startClock, edited >>

\* ------------------------------------------------------------ rollout check
Rollout ==
    /\ pc = "rollout"
    /\ \E failAt \in FailPoints :
          LET rolled == rolloutDeployments(cluster.deployments,
                                           loc.spec.deployedAt, failAt)
          IN
          /\ cluster' = [cluster EXCEPT !.deployments = rolled.deployments]
          /\ effects' = effects \o WalkLog(rolled, cluster.deployments, failAt,
                                            "rollout", "rolloutFailed")
          /\ IF rolled.err THEN
                \E g \in FailChoiceAfter(TRUE) :
                   /\ Charge2(TRUE, g)
                   /\ updateStatusWithError(loc, "Rollout failed", g)
                   /\ loc' = [loc EXCEPT !.status.message = "Rollout failed"]
                   /\ Return(Failure(RequeueIntervalMedium))
             ELSE
                \E g \in FailChoice :
                   /\ Charge(g)
                   /\ IF g \/ ~StatusUpdateAccepted THEN
                         /\ Return(Failure("none"))
                         /\ UNCHANGED << exists, srv, stale, loc >>
                      ELSE
                         /\ Stored(StatusUpdateWrites(
                               [loc EXCEPT !.status.lastDeployedAt =
                                              loc.spec.deployedAt]))
                         /\ loc' = srv'
                         /\ pc' = PhasePc(loc')
                         /\ UNCHANGED result
    /\ UNCHANGED << now, wasReactivated, clock, mongodb, suffixed, call, world, queued, edits,
                    start, startClock, edited >>

\* ----------------------------------------------------------- phase dispatch
\* A status write that ends the tick with `res` when it lands.
FinalStatusWrite(obj, res) ==
    \E g \in FailChoice :
       /\ Charge(g)
       /\ IF g \/ ~StatusUpdateAccepted THEN
             /\ Return(Failure("none"))
             /\ UNCHANGED << exists, srv, stale, loc >>
          ELSE
             /\ Stored(StatusUpdateWrites(obj))
             /\ loc' = srv'
             /\ Return(res)

handleInitialization ==
    /\ pc = "initialization"
    /\ FinalStatusWrite(
          [loc EXCEPT !.status.phase = PhaseProvisioning,
                      !.status.message = "Starting PR stack provisioning"],
          Requeue(RequeueIntervalShort))
    /\ UNCHANGED << now, wasReactivated, clock, cluster, mongodb, suffixed, call, world, queued,
                    edits, start, startClock, edited, effects >>

reconcileByPhase ==
    /\ pc = "byPhase"
    /\ IF loc.status.phase = PhaseInactive THEN
          \* back to Initialization, then handleInitialization
          \E g \in FailChoice :
             /\ Charge(g)
             /\ IF g \/ ~StatusUpdateAccepted THEN
                   /\ Return(Failure("none"))
                   /\ UNCHANGED << exists, srv, stale, loc >>
                ELSE
                   /\ Stored(StatusUpdateWrites(
                         [loc EXCEPT !.status.phase = PhaseInitialization]))
                   /\ loc' = srv'
                   /\ pc' = "initialization"
                   /\ UNCHANGED result
       ELSE
          \* default: unknown phase
          /\ Return(NoResult)
          /\ UNCHANGED << exists, srv, stale, loc, fails >>
    /\ UNCHANGED << now, wasReactivated, clock, cluster, mongodb, suffixed, call, world, queued,
                    edits, start, startClock, edited, effects >>

\* ------------------------------------------------------------- provisioning
\* A helper that hands back the error alone, as the status writes do.
recordProvisioningErrorNoRequeue(obj, message, g) ==
    /\ updateStatusWithError(obj, message, g)
    /\ loc' = [obj EXCEPT !.status.message = message]
    /\ Return(Failure("none"))

\* recordProvisioningError: warning event, updateStatusWithError, and the
\* error handed back with RequeueAfter medium.
recordProvisioningError(obj, message, g) ==
    /\ updateStatusWithError(obj, message, g)
    /\ loc' = [obj EXCEPT !.status.message = message]
    /\ Return(Failure(RequeueIntervalMedium))

\* The services createServiceCollections has a case for.
KnownServices == {DefaultServicesSuffixed[i] : i \in DOMAIN DefaultServicesSuffixed}

DatabaseNames ==
    [i \in DOMAIN DefaultServices |-> getDatabaseName(DefaultServices[i], PRNumber)]

\* The first service createServiceCollections rejects, 0 if none.
FirstUnknown ==
    IF \A i \in DOMAIN DefaultServices : DefaultServices[i] \in KnownServices
    THEN 0
    ELSE CHOOSE i \in DOMAIN DefaultServices :
            /\ DefaultServices[i] \notin KnownServices
            /\ \A j \in 1..(i - 1) : DefaultServices[j] \in KnownServices

\* A provisionMongoDB that drops the databases of the Stack along with its
\* user before it makes them anew.
provisionMongoDBFresh(db, mode, prPassword) ==
    IF mode = "connect" THEN [mongodb |-> db, err |-> TRUE, log |-> <<>>]
    ELSE IF mode = "dropUser"
    THEN [mongodb |-> db, err |-> TRUE, log |-> <<"dropUserError">>]
    ELSE IF mode = "createUser"
    THEN [mongodb |-> [user |-> FALSE, pwd |-> Nil, dbs |-> {}], err |-> TRUE,
          log |-> <<"dropUser">>]
    ELSE LET stop == IF mode = "collections" THEN 1 ELSE FirstUnknown
             made == IF stop = 0 THEN DOMAIN DatabaseNames ELSE 1..(stop - 1)
         IN [mongodb |-> [user |-> TRUE, pwd |-> prPassword,
                          dbs |-> {DatabaseNames[i] : i \in made}],
             err |-> stop # 0,
             log |-> <<"dropUser", "createUser">> \o
                     (IF made = {} THEN <<>> ELSE <<"createDatabase">>)]

\* A provisionMongoDB without the dropUser: a user that is there already
\* stays as it is, password included.
provisionMongoDBKeepsUser(db, mode, prPassword) ==
    IF mode \in {"connect", "dropUser", "createUser"}
    THEN [mongodb |-> db, err |-> TRUE, log |-> <<>>]
    ELSE LET stop == IF mode = "collections" THEN 1 ELSE FirstUnknown
             made == IF stop = 0 THEN DOMAIN DatabaseNames ELSE 1..(stop - 1)
             new  == {DatabaseNames[i] : i \in made} \ db.dbs
         IN [mongodb |-> [user |-> TRUE,
                          pwd |-> IF db.user THEN db.pwd ELSE prPassword,
                          dbs |-> db.dbs \cup new],
             err |-> stop # 0,
             log |-> (IF db.user THEN <<>> ELSE <<"createUser">>) \o
                     (IF new = {} THEN <<>> ELSE <<"createDatabase">>)]

\* provisionMongoDB up to its status write.  mode: the call that fails.
\*   "connect"     mongo.Connect / Ping
\*   "dropUser"    the dropUser command on a user that exists: its error is
\*                 ignored, and createUser then fails on the user's name
\*   "createUser"  the createUser command (the user is already dropped)
\*   "collections" index creation for the first database
\* A database comes into being with its first collection; one that is
\* there already is left as it is.
provisionMongoDB(db, mode, prPassword) ==
    IF mode = "connect" THEN [mongodb |-> db, err |-> TRUE, log |-> <<>>]
    ELSE IF mode = "dropUser"
    THEN [mongodb |-> db, err |-> TRUE, log |-> <<"dropUserError">>]
    ELSE IF mode = "createUser"
    THEN [mongodb |-> [db EXCEPT !.user = FALSE, !.pwd = Nil], err |-> TRUE,
          log |-> <<"dropUser">>]
    ELSE LET stop == IF mode = "collections" THEN 1 ELSE FirstUnknown
             made == IF stop = 0 THEN DOMAIN DatabaseNames ELSE 1..(stop - 1)
             new  == {DatabaseNames[i] : i \in made} \ db.dbs
         IN [mongodb |-> [user |-> TRUE, pwd |-> prPassword,
                          dbs |-> db.dbs \cup new],
             err |-> stop # 0,
             log |-> <<"dropUser", "createUser">> \o
                     (IF new = {} THEN <<>> ELSE <<"createDatabase">>)]

ProvisionModes ==
    IF fails < MaxFail
    THEN {"ok", "connect", "createUser", "collections"}
            \cup (IF mongodb.user THEN {"dropUser"} ELSE {})
    ELSE {"ok"}

\* generateSecurePassword: 16 random bytes, so a value that is nowhere in
\* use; the least such number stands for it.
generateSecurePassword ==
    LET used == {mongodb.pwd, cluster.secretPassword, srv.status.password,
                 loc.status.password, start.status.password}
    IN CHOOSE p \in 0..5 : p \notin used /\ \A q \in 0..(p - 1) : q \in used

\* createNamespace followed by provisionMongoDB and its status write.
handleProvisioning ==
    /\ pc = "provisioning"
    /\ \E nsFail \in FailChoice :
       IF nsFail THEN
          \E g \in FailChoiceAfter(TRUE) :
             /\ Charge2(TRUE, g)
             /\ recordProvisioningError(loc, "Namespace provisioning failed", g)
             /\ effects' = Append(effects, "createNamespaceFailed")
             /\ UNCHANGED << cluster, mongodb >>
       ELSE \E mode \in ProvisionModes :
          LET prPassword == generateSecurePassword
              p == provisionMongoDB(mongodb, mode, prPassword)
              withCreds == [loc EXCEPT !.status.mongo =
                              [i \in DOMAIN DatabaseNames |-> DatabaseNames[i]],
                                       !.status.password = prPassword]
              made == effects \o (IF cluster.ns THEN <<>> ELSE <<"createNamespace">>)
                              \o p.log
          IN
          /\ cluster' = [cluster EXCEPT !.ns = TRUE]
          /\ mongodb' = p.mongodb
          /\ IF p.err THEN
                \E g \in FailChoiceAfter(mode # "ok") :
                   /\ Charge2(mode # "ok", g)
                   /\ effects' = made \o <<"provisionMongoDBFailed">>
                   /\ recordProvisioningError(loc, "MongoDB provisioning failed", g)
             ELSE
                \E g \in FailChoice :
                   /\ IF g \/ ~StatusUpdateAccepted THEN
                         \* the write inside provisionMongoDB failed; the error
                         \* helper tries the same write again
                         \E h \in FailChoiceAfter(g) :
                            /\ Charge2(g, h)
                            /\ effects' = made \o <<"provisionMongoDBFailed">>
                            /\ recordProvisioningError(withCreds, "MongoDB provisioning failed", h)
                      ELSE
                         /\ Charge(FALSE)
                         /\ effects' = made
                         /\ Stored(StatusUpdateWrites(withCreds))
                         /\ loc' = srv'
                         /\ pc' = "provisioned"
                         /\ UNCHANGED result
    /\ UNCHANGED << now, wasReactivated, clock, suffixed, call, world, queued, edits, start,
                    startClock, edited >>

\* createMongoDBSecret (r.Create: an existing Secret is an error),
\* provisionNATS, provisionRedis, then the move to Deploying.
handleProvisioned ==
    /\ pc = "provisioned"
    /\ \E f \in FailChoice :
          IF f \/ cluster.secret THEN
             \E g \in FailChoiceAfter(f) :
                /\ Charge2(f, g)
                /\ recordProvisioningError(loc, "MongoDB secret provisioning failed", g)
                /\ effects' = Append(effects, "createSecretFailed")
                /\ UNCHANGED cluster
          ELSE
             /\ cluster' = [cluster EXCEPT !.secret = TRUE,
                                          !.secretPassword = loc.status.password]
             /\ effects' = Append(effects, "createSecret")
             /\ \E g \in FailChoice :
                   /\ Charge(g)
                   /\ IF g \/ ~StatusUpdateAccepted THEN
                         /\ Return(Failure("none"))
                         /\ UNCHANGED << exists, srv, stale, loc >>
                      ELSE
                         /\ Stored(StatusUpdateWrites(
                               [loc EXCEPT
                                  !.status.phase = PhaseDeploying,
                                  !.status.message = "Resources provisioned"]))
                         /\ loc' = srv'
                         /\ Return(Requeue(RequeueIntervalShort))
    /\ UNCHANGED << now, wasReactivated, clock, mongodb, suffixed, call, world, queued, edits,
                    start, startClock, edited >>

\* --------------------------------------------------------------- deployment
\* "Deploy services based on the services list": spec.Services, or those of
\* DefaultServicesString when it is empty.
EffectiveServices(obj) ==
    IF Len(obj.spec.services) = 0 THEN DefaultServicesString
    ELSE obj.spec.services

ServiceNames(obj) ==
    {EffectiveServices(obj)[i] : i \in DOMAIN EffectiveServices(obj)}

\* The Deployment as the handler builds it: the replica count, a pod
\* template without the restartedAt annotation, and an ObjectMeta of name,
\* namespace and labels.
BuiltDeployment(replicas) ==
    [replicas |-> replicas, restartedAt |-> Nil, ownerReferences |-> {}]

\* r.Create alone: an object that is already there is an error.
CreateOnly(existing, desired) ==
    IF existing = NoDeployment
    THEN [object |-> desired, err |-> FALSE]
    ELSE [object |-> existing, err |-> TRUE]

\* CreateOrUpdate: r.Create, and on AlreadyExists r.Update with the same
\* freshly built object, which carries no resourceVersion and replaces the
\* stored one.
CreateOrUpdate(existing, desired) ==
    IF existing = NoDeployment
    THEN [object |-> desired, err |-> FALSE]
    ELSE [object |-> desired, err |-> FALSE]

\* createMongoDBResources, createNATSResources, createRedisResources and
\* ensureBackupStorage in turn, cut short at the call failAt names or at the
\* first CreateOrUpdate that fails; the namespace has to be there.
createInfrastructure(cl, obj, failAt) ==
    IF failAt = "mongodb" \/ ~cl.ns THEN [cluster |-> cl, err |-> TRUE]
    ELSE
    LET c1 == [cl EXCEPT !.secret = TRUE,
                         !.secretPassword = obj.status.password]
        nats == CreateOrUpdate(c1.deployments[<<"nats">>], BuiltDeployment(1))
        c2 == [c1 EXCEPT !.deployments[<<"nats">>] = nats.object]
        redis == CreateOrUpdate(c2.deployments[<<"redis">>], BuiltDeployment(1))
        c3 == [c2 EXCEPT !.deployments[<<"redis">>] = redis.object]
    IN IF failAt = "nats" \/ nats.err THEN [cluster |-> c1, err |-> TRUE]
       ELSE IF failAt = "redis" \/ redis.err THEN [cluster |-> c2, err |-> TRUE]
       ELSE IF failAt = "backup" THEN [cluster |-> c3, err |-> TRUE]
       ELSE [cluster |-> [c3 EXCEPT !.pvc = @ \/ obj.spec.backupEnabled], err |-> FALSE]

\* The loop over the services: createServiceDeployment for each, a failure
\* recorded in the service's status and the loop carried on.
createServiceDeployments(cl, obj, replicas, failed) ==
    LET made(d) == CreateOrUpdate(cl.deployments[d], BuiltDeployment(replicas))
        ok(d) == d \notin failed /\ ~made(d).err
    IN [cluster |->
           [cl EXCEPT !.deployments =
               [d \in DeploymentNames |->
                   IF d \in ServiceNames(obj) /\ ok(d)
                   THEN made(d).object ELSE cl.deployments[d]]],
        statuses |->
           [i \in DOMAIN EffectiveServices(obj) |->
               [name |-> EffectiveServices(obj)[i],
                status |-> IF ok(EffectiveServices(obj)[i])
                           THEN "Running" ELSE "Failed"]]]

\* The Deployments handleDeployment makes for a Stack.
StackDeployments(obj) == ServiceNames(obj) \cup {<<"nats">>, <<"redis">>}

InfrastructureFailures ==
    IF fails < MaxFail
    THEN {"none", "mongodb", "nats", "redis"}
            \cup (IF loc.spec.backupEnabled THEN {"backup"} ELSE {})
    ELSE {"none"}

\* handleDeployment.  failAt: the infrastructure call that fails; failed: the
\* services whose createServiceDeployment fails.
handleDeployment ==
    /\ pc = "deployment"
    /\ \E failAt \in InfrastructureFailures :
          LET infra == createInfrastructure(cluster, loc, failAt)
          IN
          IF infra.err THEN
             \E g \in FailChoiceAfter(failAt # "none") :
                /\ Charge2(failAt # "none", g)
                /\ updateStatusWithError(loc, "Failed to create resources", g)
                /\ loc' = [loc EXCEPT !.status.message = "Failed to create resources"]
                /\ Return(Failure(RequeueIntervalMedium))
                /\ cluster' = infra.cluster
                /\ effects' = IF infra.cluster # cluster
                              THEN Append(effects, "deploy") ELSE effects
          ELSE
             \E failed \in (IF fails < MaxFail
                            THEN {{}} \cup {{d} : d \in ServiceNames(loc)}
                            ELSE {{}}) :
                LET replicas == IF loc.spec.active THEN 1 ELSE 0
                    services == createServiceDeployments(infra.cluster, loc,
                                                         replicas, failed)
                IN
                /\ cluster' = services.cluster
                /\ effects' = Append(effects, "deploy")
                /\ \E g \in FailChoiceAfter(failed # {}) :
                      /\ Charge2(failed # {}, g)
                      /\ IF g \/ ~StatusUpdateAccepted THEN
                            /\ Return(Failure("none"))
                            /\ UNCHANGED << exists, srv, stale, loc >>
                         ELSE
                            /\ Stored(StatusUpdateWrites(
                                  [loc EXCEPT
                                     !.status.services = services.statuses,
                                     !.status.phase = PhaseRunning,
                                     !.status.message = "PR stack is running"]))
                            /\ loc' = srv'
                            /\ Return(Requeue(RequeueIntervalLong))
    /\ UNCHANGED << now, wasReactivated, clock, mongodb, suffixed, call, world, queued, edits,
                    start, startClock, edited >>

\* ------------------------------------------------------------------ running
handleRunning ==
    /\ pc = "running"
    /\ \E failAt \in FailPoints :
          LET desiredReplicas == IF loc.spec.active THEN 1 ELSE 0
              listed == Listed(cluster.deployments)
              first == CHOOSE i \in listed : \A j \in listed : i <= j
              listFailed == failAt = Len(ListOrder) + 1
              mismatch == /\ ~listFailed
                          /\ listed # {}
                          /\ cluster.deployments[ListOrder[first]].replicas
                                # desiredReplicas
              scaled == IF mismatch
                        THEN scaleDeployments(cluster.deployments, desiredReplicas, failAt)
                        ELSE [deployments |-> cluster.deployments, err |-> listFailed]
              allHealthy == \A i \in DOMAIN loc.status.services :
                               loc.status.services[i].status = "Running"
          IN
          /\ cluster' = [cluster EXCEPT !.deployments = scaled.deployments]
          /\ effects' = effects \o WalkLog(scaled, cluster.deployments, failAt,
                                            "scale", "scaleFailed")
          /\ IF allHealthy THEN
                /\ Charge(scaled.err)
                /\ UNCHANGED << exists, srv, stale, loc >>
             ELSE
                \E g \in FailChoiceAfter(scaled.err) :
                   /\ Charge2(scaled.err, g)
                   /\ updateStatusWithError(loc, "Some services are not healthy", g)
                   /\ loc' = [loc EXCEPT !.status.message = "Some services are not healthy"]
          /\ Return(Requeue(RequeueIntervalLong))
    /\ UNCHANGED << now, wasReactivated, clock, mongodb, suffixed, call, world, queued, edits,
                    start, startClock, edited >>

\* ----------------------------------------------------------------- deletion
handleDeletion ==
    /\ pc = "handleDeletion"
    /\ FinalStatusWrite(
          [loc EXCEPT !.status.phase = PhaseCleaning,
                      !.status.message = "Cleaning up PR stack resources"],
          Requeue(RequeueIntervalShort))
    /\ UNCHANGED << now, wasReactivated, clock, cluster, mongodb, suffixed, call, world, queued,
                    edits, start, startClock, edited, effects >>

\* handleCleaning, first step: the final backup Job, whose failure is ignored.
FinalBackup ==
    /\ pc = "finalBackup"
    /\ IF loc.spec.backupEnabled /\ loc.status.mongo # NoCredentials THEN
          \E f \in FailChoice :
             /\ Charge(f)
             /\ IF f \/ ~cluster.ns THEN UNCHANGED << cluster, effects >>
                ELSE /\ cluster' = [cluster EXCEPT !.jobs = @ + 1]
                     /\ effects' = Append(effects, "backupJob")
       ELSE UNCHANGED << cluster, effects, fails >>
    /\ pc' = "cleanupAllMongoDB"
    /\ UNCHANGED << exists, srv, stale, loc, now, wasReactivated, result,
                    clock, mongodb, suffixed, call, world, queued, edits, start, startClock, edited >>

\* The name cleanupMongoDB drops for a service: the whole service name goes
\* into pishop_%s_pr_%s.
cleanupDatabaseName(service, prNumber) ==
    <<"pishop_">> \o service \o <<"_pr_", prNumber>>

\* cleanupMongoDB.  mode "connect": Connect / Ping fails and the function
\* returns the error; mode "drop": the drop of `victim` (a database name or
\* <<"user">>) fails, which is logged and passed over.
cleanupMongoDB(db, mode, victim) ==
    IF mode = "connect"
    THEN [mongodb |-> db, err |-> TRUE, log |-> <<"connectFailed">>]
    ELSE
       LET targets == {cleanupDatabaseName(DefaultServices[i], PRNumber) :
                          i \in DOMAIN DefaultServices}
           dropped == IF mode = "drop" THEN targets \ {victim} ELSE targets
           userDropped == ~(mode = "drop" /\ victim = <<"user">>)
       IN [mongodb |-> [user |-> db.user /\ ~userDropped,
                        pwd  |-> IF userDropped THEN Nil ELSE db.pwd,
                        dbs  |-> db.dbs \ dropped],
           err |-> FALSE,
           log |-> <<"connect">>
                   \o (IF db.dbs \cap dropped # {} THEN <<"dropDatabase">> ELSE <<>>)
                   \o (IF db.dbs \cap (targets \ dropped) # {}
                       THEN <<"dropDatabaseFailed">> ELSE <<>>)
                   \o (IF db.user
                       THEN IF userDropped THEN <<"dropUser">>
                            ELSE <<"dropUserFailed">>
                       ELSE <<>>)]

CleanupModes ==
    IF fails < MaxFail
    THEN {<<"ok", <<>>>>, <<"connect", <<>>>>, <<"drop", <<"user">>>>}
            \cup {<<"drop", d>> : d \in mongodb.dbs}
    ELSE {<<"ok", <<>>>>}

\* cleanupNATS / cleanupRedis: delete the Deployment if r.Get finds it.
cleanupTier(cl, name, f) ==
    IF cl.deployments[name].replicas = -1
    THEN [cluster |-> cl, err |-> FALSE, log |-> <<>>]
    ELSE IF f
    THEN [cluster |-> cl, err |-> TRUE, log |-> <<"deleteDeploymentFailed">>]
    ELSE [cluster |-> [cl EXCEPT !.deployments[name] = NoDeployment],
          err |-> FALSE, log |-> <<"deleteDeployment">>]

\* cleanupServices.  mode "get": r.Get of the namespace fails, and the
\* deletion is passed over without an error; mode "delete": r.Delete fails.
cleanupServices(cl, mode) ==
    IF ~cl.ns THEN [cluster |-> cl, err |-> FALSE, log |-> <<>>]
    ELSE IF mode = "get"
    THEN [cluster |-> cl, err |-> FALSE, log |-> <<"getNamespaceFailed">>]
    ELSE IF mode = "delete"
    THEN [cluster |-> cl, err |-> TRUE, log |-> <<"deleteNamespaceFailed">>]
    ELSE [cluster |-> EmptyCluster, err |-> FALSE, log |-> <<"deleteNamespace">>]

ServicesModes == IF fails < MaxFail THEN {"ok", "get", "delete"} ELSE {"ok"}

\* cleanupAllResources: MongoDB, NATS and Redis first, their errors logged
\* and passed over, then the namespace.
CleanupAllMongoDB ==
    /\ pc = "cleanupAllMongoDB"
    /\ \E m \in CleanupModes :
          LET c == cleanupMongoDB(mongodb, m[1], m[2]) IN
          /\ Charge(m[1] # "ok")
          /\ mongodb' = c.mongodb
          /\ effects' = effects \o c.log
    /\ pc' = "cleanupAllTiers"
    /\ UNCHANGED << exists, srv, stale, loc, now, wasReactivated, result,
                    clock, cluster, suffixed, call, world, queued, edits, start, startClock, edited >>

CleanupAllTiers ==
    /\ pc = "cleanupAllTiers"
    /\ \E f \in FailChoice :
          LET n == cleanupTier(cluster, <<"nats">>, f)
              r == cleanupTier(n.cluster, <<"redis">>, FALSE)
          IN
          /\ Charge(n.err)
          /\ cluster' = r.cluster
          /\ effects' = effects \o n.log \o r.log
    /\ pc' = "cleanupServices"
    /\ UNCHANGED << exists, srv, stale, loc, now, wasReactivated, result,
                    clock, mongodb, suffixed, call, world, queued, edits, start, startClock, edited >>

\* A handleCleaning that logs the error of a cleanup step and returns
\* ctrl.Result{}, nil.
CleaningFailedSilently(message) ==
    /\ Charge(TRUE)
    /\ Return(NoResult)
    /\ UNCHANGED << exists, srv, stale, loc >>

\* The error path of handleCleaning.
CleaningFailed(message) ==
    \E g \in FailChoiceAfter(TRUE) :
       /\ Charge2(TRUE, g)
       /\ updateStatusWithError(loc, message, g)
       /\ loc' = [loc EXCEPT !.status.message = message]
       /\ Return(Failure(RequeueIntervalMedium))

CleanupServices ==
    /\ pc = "cleanupServices"
    /\ \E mode \in ServicesModes :
          LET c == cleanupServices(cluster, mode) IN
          /\ cluster' = c.cluster
          /\ effects' = effects \o c.log
          /\ IF c.err THEN CleaningFailed("Kubernetes cleanup failed")
             ELSE /\ Charge(mode = "get" /\ cluster.ns)
                  /\ pc' = "cleanupMongoDB"
                  /\ UNCHANGED << exists, srv, stale, loc, result >>
    /\ UNCHANGED << now, wasReactivated, clock, mongodb, suffixed, call, world, queued, edits,
                    start, startClock, edited >>

\* SECOND: cleanupMongoDB once more, this time with its error returned.
CleanupMongoDB ==
    /\ pc = "cleanupMongoDB"
    /\ \E m \in CleanupModes :
          LET c == cleanupMongoDB(mongodb, m[1], m[2]) IN
          /\ mongodb' = c.mongodb
          /\ effects' = effects \o c.log
          /\ IF c.err THEN CleaningFailed("MongoDB cleanup failed")
             ELSE /\ Charge(m[1] # "ok")
                  /\ pc' = "cleanupTiers"
                  /\ UNCHANGED << exists, srv, stale, loc, result >>
    /\ UNCHANGED << now, wasReactivated, clock, cluster, suffixed, call, world, queued, edits,
                    start, startClock, edited >>

\* THIRD and FOURTH: cleanupNATS, cleanupRedis.
CleanupTiers ==
    /\ pc = "cleanupTiers"
    /\ \E f \in FailChoice, which \in {<<"nats">>, <<"redis">>} :
          LET n == cleanupTier(cluster, <<"nats">>, f /\ which = <<"nats">>)
              r == IF n.err THEN [n EXCEPT !.log = <<>>]
                   ELSE cleanupTier(n.cluster, <<"redis">>, f /\ which = <<"redis">>)
          IN
          /\ cluster' = r.cluster
          /\ effects' = effects \o n.log \o r.log
          /\ IF r.err
             THEN CleaningFailed(IF n.err THEN "NATS cleanup failed"
                                 ELSE "Redis cleanup failed")
             ELSE /\ Charge(FALSE)
                  /\ pc' = "cleaned"
                  /\ UNCHANGED << exists, srv, stale, loc, result >>
    /\ UNCHANGED << now, wasReactivated, clock, mongodb, suffixed, call, world, queued, edits,
                    start, startClock, edited >>

\* A handleCleaning that sets Cleaned on its local copy and leaves the
\* status write for later.
WriteCleanedLocally ==
    /\ pc = "cleaned"
    /\ loc' = [loc EXCEPT !.status.phase = PhaseCleaned,
                          !.status.message = "All resources have been cleaned up"]
    /\ pc' = "removeFinalizer"
    /\ UNCHANGED << exists, srv, stale, result, fails, now, wasReactivated,
                    clock, cluster, mongodb, suffixed, call, world, queued, edits, start,
                    startClock, edited, effects >>

\* Record Cleaned BEFORE removing the finalizer.
WriteCleaned ==
    /\ pc = "cleaned"
    /\ \E g \in FailChoice :
          /\ Charge(g)
          /\ IF g \/ ~StatusUpdateAccepted THEN
                /\ Return(Failure("none"))
                /\ UNCHANGED << exists, srv, stale, loc >>
             ELSE
                /\ Stored(StatusUpdateWrites(
                      [loc EXCEPT !.status.phase = PhaseCleaned,
                                  !.status.message = "All resources have been cleaned up"]))
                /\ loc' = srv'
                /\ pc' = "removeFinalizer"
                /\ UNCHANGED result
    /\ UNCHANGED << now, wasReactivated, clock, cluster, mongodb, suffixed, call, world, queued,
                    edits, start, startClock, edited, effects >>

RemoveFinalizer ==
    /\ pc = "removeFinalizer"
    /\ \E g \in FailChoice :
          /\ Charge(g)
          /\ IF g \/ ~UpdateAccepted THEN
                /\ Return(Failure("none"))
                /\ UNCHANGED << exists, srv, stale, loc >>
             ELSE
                /\ Stored(UpdateWrites(
                      [loc EXCEPT !.finalizer = removeString(loc.finalizer)]))
                /\ loc' = [loc EXCEPT !.finalizer = removeString(loc.finalizer)]
                /\ Return(NoResult)
    /\ effects' = IF exists' THEN effects ELSE Append(effects, "removeFinalizer")
    /\ UNCHANGED << now, wasReactivated, clock, cluster, mongodb, suffixed, call, world, queued,
                    edits, start, startClock, edited >>

\* ----------------------------------------------------- BackupRestoreManager
\* CreateBackup: builds the BackupSpec from prStack.Status.MongoDB.Databases,
\* then creates the Job.  Reading .Databases through a nil pointer panics;
\* a Job cannot be created in a namespace that is not there.
CreateBackup(obj, cl, f) ==
    IF obj.status.mongo = NoCredentials
    THEN [cluster |-> cl, outcome |-> "panic"]
    ELSE IF f \/ ~cl.ns
    THEN [cluster |-> cl, outcome |-> "error"]
    ELSE [cluster |-> [cl EXCEPT !.jobs = @ + 1], outcome |-> "nil"]

\* RestoreBackup: the same with a RestoreSpec and the restore Job.
RestoreBackup(obj, cl, f) ==
    IF obj.status.mongo = NoCredentials
    THEN [cluster |-> cl, outcome |-> "panic"]
    ELSE IF f \/ ~cl.ns
    THEN [cluster |-> cl, outcome |-> "error"]
    ELSE [cluster |-> [cl EXCEPT !.jobs = @ + 1], outcome |-> "nil"]

\* A caller outside Reconcile reads the PRStack and hands it to the manager.
ManagerCall(op, r) ==
    /\ cluster' = r.cluster
    /\ call' = [op |-> op, outcome |-> r.outcome, n |-> call.n + 1]
    /\ UNCHANGED << exists, srv, stale, loc, pc, now, wasReactivated, result,
                    clock, mongodb, suffixed, world, edits, start, startClock,
                    edited, queued, effects >>

CreateBackupCall ==
    /\ exists
    /\ call.n < MaxCalls
    /\ \E f \in FailChoice :
          /\ Charge(f)
          /\ ManagerCall("CreateBackup", CreateBackup(srv, cluster, f))

RestoreBackupCall ==
    /\ exists
    /\ call.n < MaxCalls
    /\ \E f \in FailChoice :
          /\ Charge(f)
          /\ ManagerCall("RestoreBackup", RestoreBackup(srv, cluster, f))

\* --------------------------------------------------------------------- Next
Next ==
    \/ ClockAdvance
    \/ UserSetActive
    \/ UserSetDeployedAt
    \/ UserDelete
    \/ Get
    \/ Finish
    \/ AddFinalizer
    \/ SetTimestamps
    \/ Reactivation
    \/ Expiration
    \/ handleInactiveStack
    \/ Rollout
    \/ reconcileByPhase
    \/ handleInitialization
    \/ handleProvisioning
    \/ handleProvisioned
    \/ handleDeployment
    \/ handleRunning
    \/ handleDeletion
    \/ FinalBackup
    \/ CleanupAllMongoDB
    \/ CleanupAllTiers
    \/ CleanupServices
    \/ CleanupMongoDB
    \/ CleanupTiers
    \/ WriteCleaned
    \/ RemoveFinalizer

Spec == Init /\ [][Next]_vars

\* The controller's own steps.  The work queue hands a queued request to the
\* worker, and a running Reconcile runs to its return: its calls carry
\* timeouts.  Users and the clock owe nothing.
Controller ==
    \/ Get
    \/ Finish
    \/ AddFinalizer
    \/ SetTimestamps
    \/ Reactivation
    \/ Expiration
    \/ handleInactiveStack
    \/ Rollout
    \/ reconcileByPhase
    \/ handleInitialization
    \/ handleProvisioning
    \/ handleProvisioned
    \/ handleDeployment
    \/ handleRunning
    \/ handleDeletion
    \/ FinalBackup
    \/ CleanupAllMongoDB
    \/ CleanupAllTiers
    \/ CleanupServices
    \/ CleanupMongoDB
    \/ CleanupTiers
    \/ WriteCleaned
    \/ RemoveFinalizer

LiveSpec == Init /\ [][Next]_vars /\ WF_vars(Controller)

\* The controller together with direct calls of the BackupRestoreManager.
ManagerNext ==
    \/ Next
    \/ CreateBackupCall
    \/ RestoreBackupCall

ManagerSpec == Init /\ [][ManagerNext]_vars

\* ------------------------------------------------- two Stacks, shared names
\* A second PRStack shares the apiserver and the database cluster with the
\* first.  What the two have in common is the name space of each system, so
\* names are kept as the strings the systems see, letter by letter.
StackIDs == {"4", "42", "2", "4_pr_2"}

Spell(part) ==
    CASE part = "pishop_"        -> <<"p","i","s","h","o","p","_">>
      [] part = "pishop_pr_"     -> <<"p","i","s","h","o","p","_","p","r","_">>
      [] part = "_pr_"           -> <<"_","p","r","_">>
      [] part = "pr-"            -> <<"p","r","-">>
      [] part = "-shop-pilab-hu" -> <<"-","s","h","o","p","-","p","i","l","a","b","-","h","u">>
      [] part = "product"        -> <<"p","r","o","d","u","c","t">>
      [] part = "products"       -> <<"p","r","o","d","u","c","t","s">>
      [] part = "cart"           -> <<"c","a","r","t">>
      [] part = "-service"       -> <<"-","s","e","r","v","i","c","e">>
      [] part = "4"              -> <<"4">>
      [] part = "2"              -> <<"2">>
      [] part = "42"             -> <<"4","2">>
      [] part = "4_pr_2"         -> <<"4","_","p","r","_","2">>
      [] part = ""               -> <<>>

RECURSIVE Chars(_)
Chars(name) ==
    IF name = <<>> THEN <<>> ELSE Spell(Head(name)) \o Chars(Tail(name))

\* fmt.Sprintf with one %s verb
Sprintf(before, arg, after) == Chars(<<before, arg, after>>)

getNamespaceNameShared(prNumber) == Sprintf("pr-", "", "-shop-pilab-hu")

\* NamespacePattern = "pr-%s-shop-pilab-hu"
getNamespaceName(prNumber) == Sprintf("pr-", prNumber, "-shop-pilab-hu")

\* prUser := fmt.Sprintf("pishop_pr_%s", prStack.Spec.PRNumber)
prUser(prNumber) == Sprintf("pishop_pr_", prNumber, "")

\* The databases provisionMongoDB makes for a Stack.
ProvisionedNames(prNumber) ==
    {Chars(getDatabaseName(DefaultServices[i], prNumber)) :
        i \in DOMAIN DefaultServices}

\* The Deployments of a Stack's namespace as deployServices leaves them.
DeployedIn(namespace) ==
    {[namespace |-> namespace, name |-> Chars(DefaultServices[i]),
      replicas |-> 1, restartedAt |-> 0] : i \in DOMAIN DefaultServices}

\* A Stack as provisioning and deployment leave it on the shared systems.
Provisioned(prNumber) ==
    [namespaces  |-> {getNamespaceName(prNumber)},
     users       |-> {[name |-> prUser(prNumber), pwd |-> prNumber]},
     dbs         |-> {[name |-> n, by |-> prNumber] :
                         n \in ProvisionedNames(prNumber)},
     deployments |-> DeployedIn(getNamespaceName(prNumber))]

\* The Stack `other` stands complete; the ticks are those of `ticking`.
SharedInit ==
    /\ InitStack
    /\ srv = InitialObject(TRUE, FALSE)
    /\ \E a \in StackIDs : \E b \in StackIDs \ {a} :
          world = [ticking |-> a, other |-> b] @@ Provisioned(b)

\* createNamespace: Get by name, Create when not found.
TickCreateNamespace ==
    /\ world' = [world EXCEPT
                   !.namespaces = @ \cup {getNamespaceName(world.ticking)}]
    /\ UNCHANGED << exists, srv, stale, loc, pc, now, wasReactivated, result,
                    clock, cluster, mongodb, suffixed, call, queued, edits,
                    fails, start, startClock, edited, effects >>

\* provisionMongoDB: dropUser and createUser by name, then the collections
\* of each database by name.
TickProvisionMongoDB ==
    /\ LET a  == world.ticking
           u  == prUser(a)
           ns == ProvisionedNames(a)
       IN world' = [world EXCEPT
                      !.users = {x \in @ : x.name # u}
                                   \cup {[name |-> u, pwd |-> a]},
                      !.dbs   = {x \in @ : x.name \notin ns}
                                   \cup {[name |-> n, by |-> a] : n \in ns}]
    /\ UNCHANGED << exists, srv, stale, loc, pc, now, wasReactivated, result,
                    clock, cluster, mongodb, suffixed, call, queued, edits,
                    fails, start, startClock, edited, effects >>

\* handleDeployment: the Deployments are made in the Stack's namespace.
TickDeployServices ==
    /\ LET namespace == getNamespaceName(world.ticking)
       IN /\ namespace \in world.namespaces
          /\ world' = [world EXCEPT
                         !.deployments = {d \in @ : d.namespace # namespace}
                                            \cup DeployedIn(namespace)]
    /\ UNCHANGED << exists, srv, stale, loc, pc, now, wasReactivated, result,
                    clock, cluster, mongodb, suffixed, call, queued, edits,
                    fails, start, startClock, edited, effects >>

\* scaleDeployments: r.List(client.InNamespace(namespace)), r.Update of each.
TickScaleDeployments ==
    /\ \E replicas \in {0, 1} :
          LET namespace == getNamespaceName(world.ticking)
          IN world' = [world EXCEPT
                         !.deployments =
                            {IF d.namespace = namespace
                             THEN [d EXCEPT !.replicas = replicas]
                             ELSE d : d \in @}]
    /\ UNCHANGED << exists, srv, stale, loc, pc, now, wasReactivated, result,
                    clock, cluster, mongodb, suffixed, call, queued, edits,
                    fails, start, startClock, edited, effects >>

\* rolloutDeployments: the same List, the restart annotation on each.
TickRolloutDeployments ==
    /\ LET namespace == getNamespaceName(world.ticking)
       IN world' = [world EXCEPT
                      !.deployments =
                         {IF d.namespace = namespace
                          THEN [d EXCEPT !.restartedAt = 1]
                          ELSE d : d \in @}]
    /\ UNCHANGED << exists, srv, stale, loc, pc, now, wasReactivated, result,
                    clock, cluster, mongodb, suffixed, call, queued, edits,
                    fails, start, startClock, edited, effects >>

\* cleanupMongoDB: dropDatabase for each DefaultServices entry, dropUser.
TickCleanupMongoDB ==
    /\ LET a       == world.ticking
           targets == {Chars(cleanupDatabaseName(DefaultServices[i], a)) :
                          i \in DOMAIN DefaultServices}
       IN world' = [world EXCEPT
                      !.dbs   = {x \in @ : x.name \notin targets},
                      !.users = {x \in @ : x.name # prUser(a)}]
    /\ UNCHANGED << exists, srv, stale, loc, pc, now, wasReactivated, result,
                    clock, cluster, mongodb, suffixed, call, queued, edits,
                    fails, start, startClock, edited, effects >>

\* cleanupServices: the namespace is deleted by name, and what is in it
\* goes with it.
TickCleanupServices ==
    /\ LET namespace == getNamespaceName(world.ticking)
       IN world' = [world EXCEPT
                      !.namespaces  = @ \ {namespace},
                      !.deployments = {d \in @ : d.namespace # namespace}]
    /\ UNCHANGED << exists, srv, stale, loc, pc, now, wasReactivated, result,
                    clock, cluster, mongodb, suffixed, call, queued, edits,
                    fails, start, startClock, edited, effects >>

SharedNext ==
    \/ TickCreateNamespace
    \/ TickProvisionMongoDB
    \/ TickDeployServices
    \/ TickScaleDeployments
    \/ TickRolloutDeployments
    \/ TickCleanupMongoDB
    \/ TickCleanupServices

SharedSpec == SharedInit /\ [][SharedNext]_vars

\* ------------------------------------------------------------------- claims
\* The tick that is running, or has just returned, works on an object that
\* carries a deletion timestamp.
DeletionTick == pc \notin {"idle"} /\ loc.deleting

\* C1: on a Stack with a deletion timestamp the finalizer is taken off only
\* by the step that follows the successful write of phase Cleaned: whenever
\* a step removes the finalizer, the stored status already says Cleaned.
C1_FinalizerHeldUntilCleaned ==
    [][(srv.deleting /\ srv.finalizer /\ ~srv'.finalizer)
          => (pc = "removeFinalizer" /\ srv.status.phase = PhaseCleaned)]_vars

\* The finalizer has been taken off a deleting Stack and the object is gone.
C1_Witness ==
    /\ ~exists
    /\ srv.deleting
    /\ ~srv.finalizer
    /\ srv.status.phase = PhaseCleaned
    /\ pc = "done"

\* The databases the status names (status.mongodb.databases).
CredentialDatabases ==
    {srv.status.mongo[i] : i \in DOMAIN srv.status.mongo}

\* C2: once the controller has removed its finalizer, the namespace is
\* absent and neither a database the status names nor the per-stack user
\* is left on the database cluster.
C2_CleanupCompleteAtRemoval ==
    (srv.deleting /\ ~srv.finalizer /\ srv.status.phase = PhaseCleaned)
       => /\ ~cluster.ns
          /\ ~mongodb.user
          /\ mongodb.dbs \cap CredentialDatabases = {}

\* The order the cleanup effects are to come in.
CleanupRank(e) ==
    CASE e = "backupJob"       -> 1
      [] e = "deleteNamespace" -> 2
      [] e = "dropDatabase"    -> 3
      [] e = "dropUser"        -> 4
      [] e = "removeFinalizer" -> 5
      [] OTHER                 -> 0

\* C3: in a tick on a deleting Stack the effects come in the order backup
\* Job, namespace deletion, database drops, user drop, finalizer removal,
\* and nothing is dropped while the namespace deletion is still to come.
C3_CleanupOrder ==
    DeletionTick =>
       /\ \A i, j \in DOMAIN effects :
             (i < j /\ CleanupRank(effects[i]) > 0 /\ CleanupRank(effects[j]) > 0)
                => CleanupRank(effects[i]) <= CleanupRank(effects[j])
       /\ \A i \in DOMAIN effects :
             (effects[i] \in {"dropDatabase", "dropUser"} /\ cluster.ns)
                => \E j \in 1..(i - 1) : effects[j] = "deleteNamespace"

\* The last attempt of a kind of cleanup call in the tick failed.
LastAttemptFailed(failed, succeeded) ==
    \E i \in DOMAIN effects :
       /\ effects[i] \in failed
       /\ \A j \in DOMAIN effects : j > i => effects[j] \notin succeeded

CleanupCallFailed ==
    \/ LastAttemptFailed({"getNamespaceFailed", "deleteNamespaceFailed"},
                         {"deleteNamespace"})
    \/ LastAttemptFailed({"connectFailed"}, {"connect"})
    \/ LastAttemptFailed({"dropDatabaseFailed"}, {"dropDatabase"})
    \/ LastAttemptFailed({"dropUserFailed"}, {"dropUser"})
    \/ LastAttemptFailed({"deleteDeploymentFailed"},
                         {"deleteDeployment", "deleteNamespace"})

CleanupErrorMessages ==
    {"Kubernetes cleanup failed", "MongoDB cleanup failed",
     "NATS cleanup failed", "Redis cleanup failed"}

\* C4: a Cleaning tick in which the namespace deletion, the database / user
\* cleanup or the messaging / cache cleanup failed ends with the phase still
\* Cleaning, an error message written, a medium requeue, and the finalizer
\* still on the object.
C4_CleaningFailureKeepsFinalizer ==
    (pc = "done" /\ loc.deleting /\ CleanupCallFailed)
       => /\ exists
          /\ srv.finalizer
          /\ srv.status.phase = PhaseCleaning
          /\ srv.status.message \in CleanupErrorMessages
          /\ result = Failure(RequeueIntervalMedium)


\* C5: a tick that leaves a deleting Stack with its finalizer on has a
\* further reconcile scheduled: it returns an error or a requeue, or, when
\* it did not see the deletion timestamp, the request of the deleting write
\* is on the queue; and, the calls to the outside succeeding in the end, a
\* deleting Stack that carries the finalizer loses it.
C5_DeletionRequeuesUntilRemoved ==
    /\ [](( pc = "done" /\ exists /\ srv.deleting /\ srv.finalizer)
            => (\/ result.err
                \/ result.requeue # "none"
                \/ ~loc.deleting /\ queued))
    /\ ((exists /\ srv.deleting /\ srv.finalizer) ~> ~exists)

\* A tick on a deleting Stack has returned with the finalizer still on.
C5_Witness ==
    /\ pc = "done"
    /\ loc.deleting
    /\ exists /\ srv.deleting /\ srv.finalizer
    /\ srv.status.phase = PhaseCleaning
    /\ result = Failure(RequeueIntervalMedium)

\* The object the tick read was active, not being deleted, and expired when
\* it was read: reactivation and expiration both apply to it.
BothApply ==
    /\ start.spec.active
    /\ ~start.deleting
    /\ isStackExpired(start, startClock)

\* C6: a tick on an active Stack to which reactivation and expiration both
\* apply never takes the expiration path: spec.active is not written, and
\* once the bump of lastActiveAt is accepted the tick ends with
\* lastActiveAt = now; without the bump the tick has ended with an error.
C6_ReactivationWins ==
    (pc = "done" /\ loc # Blank /\ BothApply)
       => /\ (srv.spec.active \/ edited)
          /\ result # Requeue("immediate")
          /\ wasReactivated => srv.status.lastActiveAt = now
          /\ ~wasReactivated => result.err

\* Such a tick has returned after the bump.
C6_Witness ==
    /\ pc = "done"
    /\ BothApply
    /\ wasReactivated
    /\ srv.spec.active
    /\ srv.status.lastActiveAt = now
    /\ now > start.status.lastActiveAt

\* C7: an active Stack whose lastActiveAt is older than the TTL is expired:
\* the tick that finds it so, left alone and without a failing call, writes
\* spec.active = false and asks for an immediate requeue.
C7_ExpiredStackIsDeactivated ==
    (pc = "done" /\ loc # Blank /\ BothApply /\ ~edited /\ ~result.err)
       => /\ ~srv.spec.active
          /\ result = Requeue("immediate")

\* C8: a tick, left alone and without a failing call, on a Stack with
\* spec.active = true, an empty phase and createdAt = lastActiveAt two hours
\* back ends with a later lastActiveAt, spec.active still true and a short
\* requeue.
C8_OldStackIsReactivated ==
    (/\ pc = "done" /\ loc # Blank /\ ~edited /\ ~result.err
     /\ start.spec.active /\ ~start.deleting
     /\ start.status.phase = PhaseInitialization
     /\ start.status.createdAt # Nil
     /\ start.status.createdAt = start.status.lastActiveAt
     /\ startClock - start.status.lastActiveAt = 2)
       => /\ srv.status.lastActiveAt > start.status.lastActiveAt
          /\ srv.spec.active
          /\ result = Requeue(RequeueIntervalShort)

C8_Witness ==
    /\ pc = "done" /\ ~edited /\ ~result.err
    /\ start.spec.active /\ ~start.deleting
    /\ start.status.phase = PhaseInitialization
    /\ start.status.createdAt = 0
    /\ start.status.lastActiveAt = 0
    /\ startClock = 2
    /\ srv.status.lastActiveAt = 2
    /\ srv.status.phase = PhaseProvisioning
    /\ result = Requeue(RequeueIntervalShort)

\* C9: a step of the controller that changes the stored spec is the
\* expiration write, and it changes spec.active to false and nothing else;
\* the writes that add or remove the finalizer leave the spec as it is.
C9_SpecWrittenOnlyByExpiration ==
    [][(edits' = edits /\ srv'.spec # srv.spec)
          => /\ pc = "expiration"
             /\ srv.spec.active
             /\ srv'.spec = [srv.spec EXCEPT !.active = FALSE]
             /\ srv'.finalizer = srv.finalizer]_vars

\* The expiration write has landed.
C9_Witness ==
    /\ pc = "done"
    /\ result = Requeue("immediate")
    /\ start.spec.active
    /\ ~srv.spec.active
    /\ ~edited
    /\ srv.finalizer

\* The phases reconcileByPhase has a case for.
HandledPhases ==
    {PhaseInitialization, PhaseInactive, PhaseProvisioning, PhaseDeploying,
     PhaseRunning, PhaseCleaning}

\* C10: once a user write has landed after the tick's read, no write of the
\* tick changes the stored object, and the tick returns an error or a
\* requeue.  (A tick that ends in the default case of reconcileByPhase has
\* tried no write since the user's.)
C10_WritesAreConditional ==
    /\ [][(stale /\ edits' = edits) => (srv' = srv /\ exists' = exists)]_vars
    /\ []((pc = "done" /\ stale
               /\ (loc.deleting \/ ~loc.spec.active
                       \/ loc.status.phase \in HandledPhases))
            => (result.err \/ result.requeue # "none"))

\* A write of the tick met a user edit and was turned down.
C10_Witness ==
    /\ pc = "done"
    /\ stale
    /\ edited
    /\ srv.spec # start.spec
    /\ result = Failure("none")

\* The calls that bring something into being outside the PRStack object.
CreationEffects ==
    {"createNamespace", "createUser", "createDatabase", "createSecret", "deploy"}

\* C11: a step creates a namespace, a database user, a database, a Secret
\* or a Deployment only while the stored Stack carries the finalizer, and a
\* tick whose finalizer write fails returns with nothing done outside.
C11_NoEffectBeforeFinalizer ==
    [][/\ (\E i \in DOMAIN effects' :
              /\ i > Len(effects)
              /\ effects'[i] \in CreationEffects) => srv.finalizer
       /\ (cluster' # cluster \/ mongodb' # mongodb) => srv.finalizer
       /\ (pc = "finalizer" /\ pc' = "done")
             => (/\ effects' = <<>>
                 /\ cluster' = cluster
                 /\ mongodb' = mongodb
                 /\ result'.err)]_vars

\* A namespace has been created in a tick on a Stack that holds the finalizer.
C11_Witness ==
    /\ \E i \in DOMAIN effects : effects[i] = "createNamespace"
    /\ srv.finalizer
    /\ cluster.ns

\* The phases no controller step leads out of.
TerminalPhases == {PhaseCleaned, PhaseFailed}

AllowedPhaseEdge(from, to, active) ==
    \/ to = from
    \/ << from, to >> \in {<< PhaseInitialization, PhaseProvisioning >>,
                           << PhaseProvisioning, PhaseDeploying >>,
                           << PhaseDeploying, PhaseRunning >>}
    \/ /\ from \notin TerminalPhases
       /\ to \in {PhaseFailed, PhaseDegraded, PhaseInactive, PhaseCleaning}
    \/ from = PhaseCleaning /\ to = PhaseCleaned
    \/ from = PhaseInactive /\ to = PhaseInitialization /\ active

\* C12: every change of the stored status.phase follows an allowed edge:
\* Init, Provisioning, Deploying, Running in order; Failed, Degraded,
\* Inactive or Cleaning from any phase that is not terminal; Cleaned from
\* Cleaning; Init again only from Inactive while spec.active is true.
C12_PhaseEdges ==
    [][AllowedPhaseEdge(srv.status.phase, srv'.status.phase, srv.spec.active)]_vars

ProvisioningFailures ==
    {"createNamespaceFailed", "provisionMongoDBFailed", "createSecretFailed"}

\* A sub-step of the Provisioning branch has failed in this step.
ProvisioningStepFailed ==
    /\ pc \in {"provisioning", "provisioned"}
    /\ Len(effects') > Len(effects)
    /\ effects'[Len(effects')] \in ProvisioningFailures

C14_ErrorHelperSetsFailed ==
    [][ProvisioningStepFailed
          => (/\ loc'.status.phase = PhaseFailed
              /\ loc'.status.message \in
                    {"Namespace provisioning failed", "MongoDB provisioning failed",
                     "MongoDB secret provisioning failed"})]_vars

\* C15: a tick on an active Stack that is not being deleted and whose phase
\* is Failed, with no user write and no failing call, does nothing outside,
\* leaves the phase Failed and returns RequeueAfter long without an error.
C15_FailedStackIsLeftAlone ==
    (/\ pc = "done"
     /\ exists
     /\ ~start.deleting
     /\ start.spec.active
     /\ start.status.phase = PhaseFailed
     /\ ~edited
     /\ fails = 0)
        => (/\ effects = <<>>
            /\ srv.status.phase = PhaseFailed
            /\ result = Requeue(RequeueIntervalLong))

\* The number of services recorded as Failed.
FailedServices(services) ==
    Cardinality({i \in DOMAIN services : services[i].status = "Failed"})

\* C16: the status write that closes a Deploying tick over N services of
\* which F failed sets the phase to Running when F = 0, to Degraded when
\* 0 < F < N and to Failed when F = N.
C16_DeployingOutcome ==
    [][(/\ pc = "deployment"
        /\ pc' = "done"
        /\ srv.status.phase = PhaseDeploying
        /\ srv'.status # srv.status
        /\ effects' = Append(effects, "deploy")
        /\ Len(srv'.status.services) > 0)
          => LET N == Len(srv'.status.services)
                 F == FailedServices(srv'.status.services)
             IN srv'.status.phase = IF F = 0 THEN PhaseRunning
                                    ELSE IF F < N THEN PhaseDegraded
                                    ELSE PhaseFailed]_vars

\* The tick found the namespace, the database user and the credentials
\* Secret in place: they are there and it has created none of them anew.
ProvisionedBefore ==
    /\ cluster.ns
    /\ cluster.secret
    /\ mongodb.user
    /\ \A i \in DOMAIN effects : effects[i] \notin {"createNamespace", "createSecret"}

\* C17: a Provisioning tick on a Stack whose namespace, database user,
\* databases and credentials Secret already exist, with no user write, no
\* failing call and no expiry, returns without error and moves the Stack to
\* Deploying.
C17_ProvisioningReplaySucceeds ==
    (/\ pc = "done"
     /\ exists
     /\ ~start.deleting
     /\ start.spec.active
     /\ start.status.phase = PhaseProvisioning
     /\ srv.spec.active
     /\ ~edited
     /\ fails = 0
     /\ ProvisionedBefore)
        => (/\ ~result.err
            /\ srv.status.phase = PhaseDeploying)

\* What one pass of handleDeployment in which no call is made to fail does
\* to the cluster, and whether it met an error.
DeployingPass(cl, obj) ==
    LET infra == createInfrastructure(cl, obj, "none")
        services == createServiceDeployments(
                        infra.cluster, obj, IF obj.spec.active THEN 1 ELSE 0, {})
    IN IF infra.err THEN [cluster |-> infra.cluster, err |-> TRUE]
       ELSE [cluster |-> services.cluster,
             err |-> FailedServices(services.statuses) > 0]

\* C18: wherever a Deploying pass is about to run, running it a second time
\* on the same Stack right after the first changes nothing in the cluster
\* and meets no error; and the pass the controller does run over what a
\* finished pass left, with no call made to fail, changes nothing in the
\* cluster and reports no failed resource.
C18_DeployingTwiceIsNoOp ==
    [][(pc = "deployment" /\ cluster.ns)
          => LET once == DeployingPass(cluster, loc)
                 twice == DeployingPass(once.cluster, loc)
             IN /\ ~once.err
                /\ ~twice.err
                /\ twice.cluster = once.cluster
                /\ (cluster = once.cluster /\ fails' = fails /\ pc' = "done")
                      => (/\ cluster' = cluster
                          /\ result'.requeue # RequeueIntervalMedium)]_vars

\* A Deploying pass is about to run over the objects an earlier pass left.
C18_Witness ==
    /\ pc = "deployment"
    /\ cluster.secret
    /\ \A d \in StackDeployments(loc) : cluster.deployments[d].replicas # -1
    /\ fails = 1

\* C19: the rollout runs only for a spec.deployedAt that is set and differs
\* from status.lastDeployedAt, and a tick that returns without error on an
\* active Stack whose deployedAt is set and was left alone has it recorded
\* as status.lastDeployedAt: over any number of such ticks the rollout for
\* one value of deployedAt runs exactly once, and never for a nil one.
C19_RolloutExactlyOnce ==
    /\ (pc = "rollout")
          => (/\ loc.spec.deployedAt # Nil
              /\ loc.spec.deployedAt # loc.status.lastDeployedAt
              /\ start.status.lastDeployedAt # loc.spec.deployedAt)
    /\ (/\ pc = "done"
        /\ exists
        /\ ~result.err
        /\ ~start.deleting
        /\ start.spec.active
        /\ srv.spec.active
        /\ ~edited
        /\ start.spec.deployedAt # Nil)
          => srv.status.lastDeployedAt = start.spec.deployedAt
    /\ (\E i \in DOMAIN effects : effects[i] = "rollout")
          => (/\ start.spec.deployedAt # Nil
              /\ start.status.lastDeployedAt # start.spec.deployedAt)

\* A tick on a running Stack whose Deployments carry the stamp of an earlier
\* rollout has returned without rolling them again.
C19_Witness ==
    /\ pc = "done"
    /\ ~result.err
    /\ start.spec.active
    /\ start.status.phase = PhaseRunning
    /\ start.spec.deployedAt = 1
    /\ start.status.lastDeployedAt = 1
    /\ \A d \in StackDeployments(start) : cluster.deployments[d].restartedAt = 1
    /\ effects = <<>>

\* Every Deployment r.List finds in the namespace carries the stamp.
AllStamped(deps, stamp) ==
    \A i \in Listed(deps) : deps[ListOrder[i]].restartedAt = stamp

\* C20: the stored status.lastDeployedAt changes only in the rollout step,
\* to the stored spec.deployedAt, and with every Deployment of the namespace
\* carrying restartedAt of that value; a rollout that fails leaves
\* lastDeployedAt as it was and returns the error, so that the rollout is
\* still due on the next tick.
C20_LastDeployedAtAfterRollout ==
    [][/\ (srv'.status.lastDeployedAt # srv.status.lastDeployedAt)
             => (/\ pc = "rollout"
                 /\ srv'.status.lastDeployedAt = srv'.spec.deployedAt
                 /\ AllStamped(cluster'.deployments, srv'.spec.deployedAt))
       /\ (/\ pc = "rollout"
           /\ pc' # "rollout"
           /\ ~AllStamped(cluster'.deployments, loc.spec.deployedAt))
             => (/\ srv'.status.lastDeployedAt = srv.status.lastDeployedAt
                 /\ pc' = "done"
                 /\ result'.err
                 /\ stale \/ shouldRolloutDeployments(srv'))]_vars

\* A rollout has stamped Deployments and its value has been recorded.
C20_Witness ==
    /\ \E i \in DOMAIN effects : effects[i] = "rollout"
    /\ Listed(cluster.deployments) # {}
    /\ srv.spec.deployedAt = 1
    /\ srv.status.lastDeployedAt = 1
    /\ start.status.lastDeployedAt = Nil
    /\ AllStamped(cluster.deployments, 1)

\* The last entry a step adds to the log is the failed update of a
\* Deployment in a scale or rollout walk.
WalkUpdateFailed ==
    /\ Len(effects') > Len(effects)
    /\ effects'[Len(effects')] \in {"scaleFailed", "rolloutFailed"}

\* The replica count the walk of the running step asks for.
WalkDesired ==
    IF pc = "inactive" THEN 0 ELSE IF loc.spec.active THEN 1 ELSE 0

\* The listed Deployments the walk of the running step has to update.
WalkPending(deps) ==
    {i \in Listed(deps) :
        IF pc = "rollout"
        THEN deps[ListOrder[i]].restartedAt # loc.spec.deployedAt
        ELSE deps[ListOrder[i]].replicas # WalkDesired}

\* C21 as stated: when the update of one Deployment fails in a scale or
\* rollout walk, the walk still goes through every remaining Deployment, so
\* that the failing one alone is left short of the target.
C21_WalkGoesOnAfterFailure ==
    [][WalkUpdateFailed
          => Cardinality(WalkPending(cluster'.deployments)) <= 1]_vars

\* C21, amended: the walk ends at the Deployment whose update fails (in a
\* scale walk one that is off the target, in a rollout walk any one): those
\* listed before it are at the target, that one and all after it are as
\* they were, and the error goes back to the caller, which in the inactive
\* branch and the rollout check ends the tick with it and a medium requeue.
C21_WalkStopsAtFirstFailure ==
    [][WalkUpdateFailed
          => /\ \E k \in IF pc = "rollout" THEN Listed(cluster.deployments)
                                          ELSE WalkPending(cluster.deployments) :
                   \A i \in Listed(cluster.deployments) :
                      IF i < k
                      THEN i \notin WalkPending(cluster'.deployments)
                      ELSE cluster'.deployments[ListOrder[i]]
                              = cluster.deployments[ListOrder[i]]
             /\ pc \in {"inactive", "rollout"}
                   => result' = Failure(RequeueIntervalMedium)]_vars

\* A scale-down has stopped at the second Deployment of the list: the first
\* is at 0, the other three still run.
C21_Witness ==
    /\ pc = "done"
    /\ ~start.spec.active
    /\ effects = << "scale", "scaleFailed" >>
    /\ Cardinality(Listed(cluster.deployments)) = 4
    /\ cluster.deployments[ListOrder[1]].replicas = 0
    /\ \A i \in Listed(cluster.deployments) \ {1} :
          cluster.deployments[ListOrder[i]].replicas = 1
    /\ result = Failure(RequeueIntervalMedium)

InactiveTick ==
    /\ pc = "done"
    /\ exists
    /\ ~start.deleting
    /\ ~start.spec.active

\* C23: a tick on a Stack that is not being deleted and has spec.active =
\* false, if it returns without error, leaves every Deployment of the
\* namespace at 0 replicas, the phase Inactive and a long requeue; a tick
\* whose scale-down failed returns the error and leaves the phase as it
\* found it.
C23_InactiveTickScalesToZero ==
    /\ (InactiveTick /\ ~result.err)
          => (/\ \A i \in Listed(cluster.deployments) :
                    cluster.deployments[ListOrder[i]].replicas = 0
              /\ srv.status.phase = PhaseInactive
              /\ result = Requeue(RequeueIntervalLong))
    /\ (/\ InactiveTick
        /\ \E i \in DOMAIN effects : effects[i] \in {"scaleFailed", "listFailed"})
          => (/\ result = Failure(RequeueIntervalMedium)
              /\ srv.status.phase = start.status.phase)

\* A running Stack has been deactivated and the next tick has scaled its
\* four Deployments down.
C23_Witness ==
    /\ InactiveTick
    /\ start.status.phase = PhaseRunning
    /\ effects = << "scale" >>
    /\ Cardinality(Listed(cluster.deployments)) = 4
    /\ \A i \in Listed(cluster.deployments) :
          cluster.deployments[ListOrder[i]].replicas = 0
    /\ srv.status.phase = PhaseInactive
    /\ result = Requeue(RequeueIntervalLong)

\* Two clusters differ in the replica counts of their Deployments at most.
SameButReplicas(a, b) ==
    /\ a.ns = b.ns /\ a.secret = b.secret /\ a.pvc = b.pvc /\ a.jobs = b.jobs
    /\ \A d \in DeploymentNames :
          /\ a.deployments[d].restartedAt = b.deployments[d].restartedAt
          /\ (a.deployments[d].replicas = -1) = (b.deployments[d].replicas = -1)

\* C24: no step of a tick on an inactive Stack that is not being deleted
\* creates or removes the namespace, the Secret, a Deployment or anything
\* else in it, touches the database user or a database, or changes the
\* credentials in the status; and the inactive branch itself writes nothing
\* to the Stack but status.phase and status.message.
C24_DeactivationKeepsResources ==
    [][(pc \notin {"idle", "done"} /\ ~loc.deleting /\ ~loc.spec.active
           /\ edits' = edits)
          => /\ SameButReplicas(cluster, cluster')
             /\ mongodb' = mongodb
             /\ srv'.status.mongo = srv.status.mongo
             /\ pc = "inactive"
                   => srv' = [srv EXCEPT
                                !.status.phase = srv'.status.phase,
                                !.status.message = srv'.status.message]]_vars

\* A provisioned and deployed Stack has been deactivated: its Deployments
\* are at 0, and namespace, Secret, database user, databases and the
\* credentials in the status are all still there.
C24_Witness ==
    /\ InactiveTick
    /\ effects = << "scale" >>
    /\ srv.status.phase = PhaseInactive
    /\ cluster.ns /\ cluster.secret
    /\ mongodb.user /\ mongodb.dbs # {}
    /\ srv.status.mongo # NoCredentials
    /\ Cardinality(Listed(cluster.deployments)) = 4
    /\ \A i \in Listed(cluster.deployments) :
          cluster.deployments[ListOrder[i]].replicas = 0

\* C25: a tick on an active Stack in phase Running that is not being
\* deleted, with no user write, no expiry and no failing call in it, leaves
\* every Deployment of the namespace at 1 replica, wherever r.List puts it.
C25_RunningTickScalesAll ==
    (/\ pc = "done"
     /\ exists
     /\ ~start.deleting
     /\ start.spec.active
     /\ srv.spec.active
     /\ start.status.phase = PhaseRunning
     /\ ~edited
     /\ ~result.err
     /\ \A i \in DOMAIN effects : effects[i] \notin {"scaleFailed", "listFailed"})
        => \A i \in Listed(cluster.deployments) :
              cluster.deployments[ListOrder[i]].replicas = 1

\* C26: no step of a tick on a Stack with spec.active = false stamps a
\* Deployment or changes the stored status.lastDeployedAt, and such a tick
\* never comes to the rollout, whether or not spec.deployedAt differs from
\* status.lastDeployedAt.
C26_NoRolloutWhileInactive ==
    [][(pc \notin {"idle", "done"} /\ ~loc.spec.active /\ edits' = edits)
          => /\ srv'.status.lastDeployedAt = srv.status.lastDeployedAt
             /\ \A d \in DeploymentNames :
                   cluster'.deployments[d].restartedAt
                      \in {cluster.deployments[d].restartedAt, Nil}
             /\ pc # "rollout"
             /\ pc' # "rollout"
             /\ \A i \in DOMAIN effects' : effects'[i] # "rollout"]_vars

\* A tick on an inactive Stack whose deployedAt is set and not yet recorded
\* has gone through the inactive branch with Deployments in the namespace.
C26_Witness ==
    /\ InactiveTick
    /\ start.spec.deployedAt = 1
    /\ start.status.lastDeployedAt = Nil
    /\ srv.status.lastDeployedAt = Nil
    /\ srv.status.phase = PhaseInactive
    /\ ~result.err
    /\ Cardinality(Listed(cluster.deployments)) = 4
    /\ \A d \in DeploymentNames : cluster.deployments[d].restartedAt = Nil

\* A Provisioning tick has succeeded: it returned without error and moved
\* the Stack to Deploying.
ProvisioningSucceeded ==
    /\ pc = "done"
    /\ exists
    /\ start.status.phase = PhaseProvisioning
    /\ srv.status.phase = PhaseDeploying
    /\ ~result.err

\* C27: after a Provisioning tick that succeeded the databases named in the
\* status are the derived names of the effective services (spec.services,
\* or the default set when that is empty), one for each and in their order.
C27_OneDatabasePerService ==
    ProvisioningSucceeded
       => /\ Len(srv.status.mongo) = Len(EffectiveServices(srv))
          /\ \A i \in DOMAIN srv.status.mongo :
                srv.status.mongo[i]
                   = getDatabaseName(EffectiveServices(srv)[i], PRNumber)

\* C28: a Stack whose effective services include a name for which
\* createServiceCollections has no case is never in phase Deploying or
\* Running, and a Provisioning tick on it that is not cut short by expiry
\* returns an error.
C28_UnknownServiceStopsProvisioning ==
    (\E i \in DOMAIN EffectiveServices(srv) :
         EffectiveServices(srv)[i] \notin KnownServices)
       => /\ srv.status.phase \notin {PhaseDeploying, PhaseRunning}
          /\ (pc = "done" /\ start.status.phase = PhaseProvisioning
                  /\ ~start.deleting /\ start.spec.active /\ srv.spec.active)
                => result.err

\* C29: the per-stack user, whose name is its key on the database cluster,
\* is there once or not at all: after a provisioning step that ran
\* createUser it is there, and no step but one that ran createUser brings
\* it into being; and no step of the provisioning branch removes a database:
\* the databases that were there before the step are there after it, and a
\* database goes only in a cleanup step of a deleting Stack.
C29_ProvisioningKeepsDatabases ==
    [][/\ (pc = "provisioning" /\ pc' # "provisioning")
             => /\ mongodb.dbs \subseteq mongodb'.dbs
                /\ (\E i \in DOMAIN effects' :
                       i > Len(effects) /\ effects'[i] = "createUser")
                      => mongodb'.user
       /\ (mongodb'.user /\ ~mongodb.user)
             => (/\ pc = "provisioning"
                 /\ \E i \in DOMAIN effects' :
                       i > Len(effects) /\ effects'[i] = "createUser")
       /\ ~(mongodb.dbs \subseteq mongodb'.dbs)
             => (pc \in {"cleanupAllMongoDB", "cleanupMongoDB"} /\ loc.deleting)]_vars

\* Provisioning has been entered again on a Stack whose namespace, user and
\* databases were there: the user has been dropped and created, no
\* database has been made, and both databases are in place.
C29_Witness ==
    /\ pc = "provisioned"
    /\ effects = << "dropUser", "createUser" >>
    /\ mongodb.user
    /\ Cardinality(mongodb.dbs) = 2
    /\ loc.status.mongo # NoCredentials

\* C30: for a Stack whose spec ValidatePRStack turns down there is never a
\* namespace, a database user, a database or a Deployment, and a tick on it
\* that has read it and returns no error leaves the phase Failed and asks
\* for no timed requeue.
C30_InvalidSpecIsRejected ==
    ~ValidatePRStack(srv)
       => /\ ~cluster.ns
          /\ ~mongodb.user
          /\ mongodb.dbs = {}
          /\ Listed(cluster.deployments) = {}
          /\ (pc = "done" /\ exists /\ loc # Blank /\ ~start.deleting /\ ~result.err)
                => (/\ srv.status.phase = PhaseFailed
                    /\ result.requeue = "none")

\* C31: CreateBackup and RestoreBackup, called on a PRStack whose
\* Status.MongoDB is nil, return an error and create no Job.
C31_NoCredentialsIsAnError ==
    [][(call' # call /\ srv.status.mongo = NoCredentials)
          => /\ call'.outcome = "error"
             /\ cluster'.jobs = cluster.jobs]_vars

\* A PRStack as it is created: active, valid, not yet seen by the controller.
FreshActiveStack ==
    /\ exists /\ pc = "idle" /\ ~srv.deleting
    /\ srv.status.phase = PhaseInitialization
    /\ srv.status.createdAt = Nil
    /\ srv.spec.active
    /\ ValidatePRStack(srv)

\* The Stack runs with everything it needs in place.
RunningComplete ==
    /\ srv.status.phase = PhaseRunning
    /\ cluster.ns /\ cluster.secret /\ mongodb.user
    /\ \A i \in DOMAIN EffectiveServices(srv) :
          getDatabaseName(EffectiveServices(srv)[i], PRNumber) \in mongodb.dbs
    /\ \A d \in ServiceNames(srv) : cluster.deployments[d].replicas = 1

\* C32: a PRStack created active and valid comes to phase Running with its
\* namespace, its database user, a database for each of its services, the
\* credentials Secret and a Deployment at one replica for each of its
\* services, unless a call fails, a user writes to it, or it is switched
\* off on the way.
C32_FreshStackReachesRunning ==
    FreshActiveStack
       ~> (RunningComplete \/ fails > 0 \/ edits > 0 \/ ~srv.spec.active)

\* C33: isStackExpired calls a Stack expired when its lastActiveAt lies
\* StackExpirationTime or more before the current time, the boundary
\* included, and not expired when it lies less than that back.
C33_BoundaryCountsAsExpired ==
    (exists /\ srv.status.lastActiveAt # Nil)
       => (isStackExpired(srv, clock)
              <=> clock - srv.status.lastActiveAt >= StackExpirationTime)

\* C34: every Deployment the controller has put into the Stack's namespace
\* carries an owner reference to the PRStack.
C34_DeploymentsAreOwned ==
    \A d \in DeploymentNames :
       cluster.deployments[d] # NoDeployment
          => "PRStack" \in cluster.deployments[d].ownerReferences

\* C35: once the stored phase is Cleaned no step changes it, and no step
\* runs a cleanup call again (a backup Job, deleting the namespace, dropping
\* a database or the user); taking the finalizer off is all that is left.
C35_CleanedIsTerminal ==
    [][(exists /\ srv.status.phase = PhaseCleaned)
          => /\ srv'.status.phase = PhaseCleaned
             /\ \A i \in (Len(effects) + 1)..Len(effects') :
                   CleanupRank(effects'[i]) \in {0, 5}]_vars

\* C36: while the stored phase is Deploying or Running, the password in the
\* status, the password in the Secret of the namespace and the password of
\* the database user are one and the same value, whatever provisioning
\* ticks failed on the way there.
C36_PasswordsAgree ==
    (exists /\ srv.status.phase \in {PhaseDeploying, PhaseRunning})
       => /\ srv.status.password # Nil
          /\ mongodb.pwd = srv.status.password
          /\ cluster.secret /\ cluster.secretPassword = srv.status.password

\* The Stack runs on its second password: an earlier provisioning tick had
\* made the user and failed after that.
C36_Witness ==
    /\ exists /\ srv.status.phase = PhaseRunning
    /\ fails > 0
    /\ srv.status.password = 1
    /\ mongodb.pwd = 1 /\ cluster.secretPassword = 1

\* Where a tick can stand that went into handleDeletion.
DeletionPcs ==
    {"handleDeletion", "finalBackup", "cleanupAllMongoDB", "cleanupAllTiers",
     "cleanupServices", "cleanupMongoDB", "cleanupTiers", "cleaned",
     "removeFinalizer", "done"}

\* C37: a tick that read the PRStack with its deletion timestamp stays on
\* the deletion path: it does not come to the finalizer, timestamp,
\* reactivation, expiration, inactive, rollout or phase steps, it leaves the
\* stored spec and lastActiveAt alone, and what it does to the namespace,
\* the Secret, the Deployments, the databases and the database user is to
\* remove them; it creates, scales and stamps nothing.
C37_DeletingStackOnlyCleaned ==
    [][(pc \notin {"idle", "done"} /\ loc.deleting /\ edits' = edits)
          => /\ pc \in DeletionPcs /\ pc' \in DeletionPcs
             /\ srv'.spec = srv.spec
             /\ srv'.status.lastActiveAt = srv.status.lastActiveAt
             /\ cluster'.ns => cluster.ns
             /\ cluster'.secret
                   => (/\ cluster.secret
                       /\ cluster'.secretPassword = cluster.secretPassword)
             /\ \A d \in DeploymentNames :
                   cluster'.deployments[d] \in {cluster.deployments[d], NoDeployment}
             /\ mongodb'.user => (mongodb.user /\ mongodb'.pwd = mongodb.pwd)
             /\ mongodb'.dbs \subseteq mongodb.dbs
             /\ \A i \in (Len(effects) + 1)..Len(effects') :
                   effects'[i] \notin CreationEffects \cup {"scale", "rollout"}]_vars

\* A deletion tick on a Stack that ran has removed the namespace and the
\* database user and stands before the finalizer removal.
C37_Witness ==
    /\ pc = "removeFinalizer" /\ loc.deleting
    /\ start.status.phase = PhaseCleaning
    /\ \E i \in DOMAIN effects : effects[i] = "deleteNamespace"
    /\ \E i \in DOMAIN effects : effects[i] = "dropUser"
    /\ ~cluster.ns /\ ~mongodb.user


\* C38: Stacks are kept apart by PR number: while the ticks of one Stack
\* provision, deploy, scale, roll out and clean up, the namespace of the other
\* Stack, the Deployments in it, its databases and its database user stay
\* exactly as they were made.
C38_OtherStackUntouched ==
    world.other # "" =>
       LET mine == Provisioned(world.other)
       IN /\ mine.namespaces \subseteq world.namespaces
          /\ mine.users \subseteq world.users
          /\ mine.dbs \subseteq world.dbs
          /\ {d \in world.deployments :
                 d.namespace = getNamespaceName(world.other)} = mine.deployments

\* The Stack "4" beside the Stack "42": "4" was provisioned and then cleaned
\* up by the suffixed build, which leaves its databases and nothing else.
C38_Witness ==
    /\ world.ticking = "4"
    /\ world.other = "42"
    /\ suffixed
    /\ getNamespaceName("4") \notin world.namespaces
    /\ \A x \in world.users : x.name # prUser("4")
    /\ \E x \in world.dbs : x.by = "4"


NonTerminalPhases ==
    {PhaseInitialization, PhaseProvisioning, PhaseDeploying, PhaseRunning,
     PhaseInactive}

\* C39: a tick that read a PRStack which is not being deleted and is in one of
\* the phases Initialization, Provisioning, Deploying, Running or Inactive
\* returns an error or a requeue interval, never the plain empty result.
C39_FollowUpIsScheduled ==
    (/\ pc = "done"
     /\ loc # Blank
     /\ ~start.deleting
     /\ start.status.phase \in NonTerminalPhases)
       => (result.err \/ result.requeue # "none")

\* A tick on a Running Stack has ended with the long interval, and one failure
\* was met on the way there.
C39_Witness ==
    /\ pc = "done"
    /\ ~start.deleting
    /\ start.status.phase = PhaseRunning
    /\ result = Requeue(RequeueIntervalLong)
    /\ fails > 0

====
